---- MODULE Spec2Model ----
(***************************************************************************)
(* Model of the batch issue creation pipeline of jira-cli (package cmd:    *)
(* runBatchCreate and its helpers) together with the parts of              *)
(* pkg/jira/issue.go and of the template service it calls.                 *)
(*                                                                         *)
(* Go strings are modelled as sequences of text pieces (the "@" sign and   *)
(* every letter whose case matters are pieces of their own), so that       *)
(* strings.HasPrefix, strings.TrimPrefix and strings.ToLower are computed  *)
(* and not assumed.  A dynamically typed value (interface{}) is a record   *)
(* [t, v] whose tag t is one of "str", "num", "nil", "map", "seq".  Go     *)
(* indices (PreparedItem.Index, FailedElementNumber) stay 0-based.         *)
(*                                                                         *)
(* The second part models the ADF renderer of package jira                 *)
(* (ADFToPlainText and the process... functions it walks a document with): *)
(* every function returns what it writes to its strings.Builder, or the    *)
(* run-time panic that ends the walk.                                      *)
(***************************************************************************)
EXTENDS Integers, Sequences, FiniteSets, TLC

\* ------------------------------------------------------------------ bounds
\* Largest number of items in the batch file.
MaxItems == 3

\* Number of items of the batch files whose groups need more than one
\* bulk-create request.
ChunkedItems == 51

\* Largest number of children of a list, of a media container and of a
\* document with several blocks among the renderer's inputs, and the largest
\* list depth at which a node is processed.
MaxListItems == 3

MaxMedia == 2

MaxBlocks == 2

MaxDepth == 1

\* Largest number of calls made on the secret store.
MaxOps == 3

\* ------------------------------------------------------------ Go strings
EmptyStr == <<>>

HasPrefix(s, c) == Len(s) >= 1 /\ s[1] = c

TrimPrefix(s, c) == IF HasPrefix(s, c) THEN Tail(s) ELSE s

LowerChar(c) ==
    CASE c = "E" -> "e"
      [] c = "P" -> "p"
      [] c = "I" -> "i"
      [] c = "C" -> "c"
      [] c = "S" -> "s"
      [] c = "T" -> "t"
      [] c = "GET" -> "get"
      [] c = "Create" -> "create"
      [] c = "HELP" -> "help"
      [] c = "-H" -> "-h"
      [] OTHER -> c

ToLower(s) == [i \in 1..Len(s) |-> LowerChar(s[i])]

\* ------------------------------------------------- dynamically typed values
Str(s) == [t |-> "str", v |-> s]

Num(s) == [t |-> "num", v |-> s]

Nil == [t |-> "nil", v |-> <<>>]

Map(f) == [t |-> "map", v |-> f]

Seq_(q) == [t |-> "seq", v |-> q]

EmptyMap == [k \in {} |-> Nil]

\* m[k] with Go's semantics for a missing key (the zero value nil)
Get(m, k) == IF k \in DOMAIN m THEN m[k] ELSE Nil

\* m with m[k] = val (Go's map assignment)
Put(m, k, val) == [x \in (DOMAIN m) \cup {k} |-> IF x = k THEN val ELSE m[x]]

\* --------------------------------------------------------------- templates
\* A template string is literal text (Str), one action "{{ .Key }}" (Tpl), or
\* text that text/template cannot parse (BadTpl).
Tpl(key) == [t |-> "tpl", v |-> key]

BadTpl == [t |-> "bad", v |-> <<>>]

TypeEpic == <<"E", "p", "i", "c">>

TypeStory == <<"S", "t", "o", "r", "y">>

TypeTask == <<"T", "a", "s", "k">>

NoValue == <<"<", "n", "o", " ", "v", "a", "l", "u", "e", ">">>

NullText == <<"n", "u", "l", "l">>

\* The template files on disk: name -> Template{Type, Fields}.
TemplateFiles ==
    [n \in {"epic", "story", "task", "bad"} |->
        CASE n = "epic" ->
               [Type |-> TypeEpic,
                Fields |-> [k \in {"project", "summary", "issuetype"} |->
                    CASE k = "project" -> Map([x \in {"key"} |-> Tpl("Project")])
                      [] k = "summary" -> Tpl("Summary")
                      [] OTHER -> Map([x \in {"name"} |-> Str(TypeEpic)])]]
          [] n = "story" ->
               [Type |-> TypeStory,
                Fields |-> [k \in {"project", "summary", "epicKey"} |->
                    CASE k = "project" -> Tpl("Project")
                      [] k = "summary" -> Tpl("Summary")
                      [] OTHER -> Tpl("EpicKey")]]
          [] n = "task" ->
               [Type |-> TypeTask,
                Fields |-> [k \in {"project", "summary", "parent", "labels", "points"} |->
                    CASE k = "project" -> Tpl("Project")
                      [] k = "summary" -> Tpl("Summary")
                      [] k = "parent" ->
                           Map([x \in {"key", "path"} |->
                               IF x = "key" THEN Tpl("EpicKey")
                               ELSE Seq_(<<Tpl("EpicKey")>>)])
                      [] k = "labels" ->
                           Seq_(<<Tpl("EpicKey"),
                                  Map([x \in {"name"} |-> Tpl("EpicKey")]),
                                  Seq_(<<Tpl("EpicKey")>>),
                                  Num(<<"7">>)>>)
                      [] OTHER -> Num(<<"5">>)]]
          [] OTHER ->
               [Type |-> TypeStory,
                Fields |-> [k \in {"project", "summary"} |->
                    IF k = "project" THEN Tpl("Project") ELSE BadTpl]]]

\* Service.LoadTemplate: the template, or an error when no file has the name.
LoadTemplate(name) ==
    IF name \in DOMAIN TemplateFiles
    THEN [ok |-> TRUE, tmpl |-> TemplateFiles[name]]
    ELSE [ok |-> FALSE, tmpl |-> [Type |-> EmptyStr, Fields |-> EmptyMap]]

\* The string case of renderValue: execute the template text on data; the
\* text "null" becomes nil.  A missing key prints as "<no value>".
renderString(value, data) ==
    LET result == IF value.t = "tpl"
                  THEN (IF value.v \in DOMAIN data THEN data[value.v] ELSE NoValue)
                  ELSE value.v
    IN  IF value.t = "bad" THEN [ok |-> FALSE, val |-> Nil]
        ELSE IF result = NullText THEN [ok |-> TRUE, val |-> Nil]
        ELSE [ok |-> TRUE, val |-> Str(result)]

RECURSIVE renderValue(_, _)
renderValue(value, data) ==
    CASE value.t \in {"str", "tpl", "bad"} -> renderString(value, data)
      [] value.t = "map" ->
           LET r == [k \in DOMAIN value.v |-> renderValue(value.v[k], data)]
           IN  [ok |-> \A k \in DOMAIN r : r[k].ok,
                val |-> Map([k \in DOMAIN r |-> r[k].val])]
      [] value.t = "seq" ->
           LET r == [i \in 1..Len(value.v) |-> renderValue(value.v[i], data)]
           IN  [ok |-> \A i \in DOMAIN r : r[i].ok,
                val |-> Seq_([i \in DOMAIN r |-> r[i].val])]
      [] OTHER -> [ok |-> TRUE, val |-> value]

\* Service.RenderTemplate (no field alias is configured: resolveFieldID
\* returns the field key as it is).
RenderTemplate(tmpl, data) ==
    LET r == [k \in DOMAIN tmpl.Fields |-> renderValue(tmpl.Fields[k], data)]
    IN  [ok |-> \A k \in DOMAIN r : r[k].ok,
         fields |-> [k \in DOMAIN r |-> r[k].val]]

\* ------------------------------------------------------ pkg/jira/issue.go
\* ValidateIssueFields without the check of the project field.
ValidateIssueFieldsNoProject(fields, metaOk) ==
    LET issueType == Get(fields, "issuetype")
    IN  IF issueType.t # "map" THEN FALSE
        ELSE IF Get(issueType.v, "name").t # "str" THEN FALSE
        ELSE metaOk

\* IssueService.ValidateIssueFields; metaOk is the answer of
\* MetadataService.ValidateIssueData (create metadata of the Jira site).
ValidateIssueFields(fields, metaOk) ==
    LET p == Get(fields, "project")
        project == IF p.t = "map" THEN p.v ELSE [k \in {"key"} |-> p]
        issueType == Get(fields, "issuetype")
    IN  IF p.t # "map" /\ p.t # "str" THEN FALSE
        ELSE IF Get(project, "key").t # "str" THEN FALSE
        ELSE IF issueType.t # "map" THEN FALSE
        ELSE IF Get(issueType.v, "name").t # "str" THEN FALSE
        ELSE metaOk

maxBatchSize == 50

IssueKey(n) == <<"PROJ-", ToString(n)>>

NoResponse == [Issues |-> <<>>, Errors |-> <<>>]

\* The elements of q that satisfy the mask, in order.
SelectIdx(n, mask) ==
    LET chosen(k) == mask[k]
    IN  SelectSeq([k \in 1..n |-> k], chosen)

\* IssueService.bulkCreateBatch: one POST /issue/bulk.  out is what the Jira
\* site does with the request: out.err (transport or API error, with
\* out.msg), or out.mask[i] telling whether element i is created; the
\* response lists the created issues in submission order and the failed
\* elements by their 0-based position.  first is the number of the next
\* issue key of the project.  made is the effect on the site, which the
\* client does not see: the key given to each created element; sent is the
\* list of request bodies posted (one).
bulkCreateBatch(issues, out, first) ==
    LET n == Len(issues)
        good == SelectIdx(n, out.mask)
        bad == SelectIdx(n, [i \in 1..n |-> ~out.mask[i]])
    IN  IF out.err
        THEN [err |-> TRUE, msg |-> out.msg, resp |-> NoResponse, made |-> <<>>,
              sent |-> <<issues>>]
        ELSE [err |-> FALSE, msg |-> EmptyStr, sent |-> <<issues>>,
              resp |-> [Issues |-> [j \in 1..Len(good) |->
                                       [Key |-> IssueKey(first + j - 1)]],
                        Errors |-> [j \in 1..Len(bad) |->
                                       [FailedElementNumber |-> bad[j] - 1,
                                        ElementErrors |-> out.elementErrors]]],
              made |-> [j \in 1..Len(good) |->
                           [Key |-> IssueKey(first + j - 1), Elem |-> good[j] - 1]]]

Min(a, b) == IF a < b THEN a ELSE b

\* The chunk loop of BulkCreateIssues that appends the errors of a chunk
\* with the failedElementNumber the site reported for the chunk.
RECURSIVE bulkCreateChunksNoShift(_, _, _, _, _, _)
bulkCreateChunksNoShift(issues, outs, first, i, agg, made) ==
    IF i >= Len(issues)
    THEN [err |-> FALSE, msg |-> EmptyStr, resp |-> agg, made |-> made,
          sent |-> <<>>]
    ELSE LET end == Min(i + maxBatchSize, Len(issues))
             batch == SubSeq(issues, i + 1, end)
             r == bulkCreateBatch(batch, Head(outs), first)
         IN  IF r.err
             THEN [err |-> TRUE,
                   msg |-> <<"failed to create batch ", ToString(i), "-",
                             ToString(end), ": ">> \o r.msg,
                   resp |-> NoResponse, made |-> made, sent |-> <<batch>>]
             ELSE LET rest == bulkCreateChunksNoShift(issues, Tail(outs),
                      first + Len(r.resp.Issues), end,
                      [Issues |-> agg.Issues \o r.resp.Issues,
                       Errors |-> agg.Errors \o r.resp.Errors],
                      made \o [j \in 1..Len(r.made) |->
                                  [Key |-> r.made[j].Key,
                                   Elem |-> r.made[j].Elem + i]])
                  IN  [rest EXCEPT !.sent = <<batch>> \o @]

\* The chunk loop of BulkCreateIssues from offset i on; outs holds one
\* outcome per remaining chunk, agg is aggregatedResponse.
RECURSIVE bulkCreateChunks(_, _, _, _, _, _)
bulkCreateChunks(issues, outs, first, i, agg, made) ==
    IF i >= Len(issues)
    THEN [err |-> FALSE, msg |-> EmptyStr, resp |-> agg, made |-> made,
          sent |-> <<>>]
    ELSE LET end == Min(i + maxBatchSize, Len(issues))
             batch == SubSeq(issues, i + 1, end)
             r == bulkCreateBatch(batch, Head(outs), first)
         IN  IF r.err
             THEN [err |-> TRUE,
                   msg |-> <<"failed to create batch ", ToString(i), "-",
                             ToString(end), ": ">> \o r.msg,
                   resp |-> NoResponse, made |-> made, sent |-> <<batch>>]
             ELSE LET rest == bulkCreateChunks(issues, Tail(outs),
                      first + Len(r.resp.Issues), end,
                      [Issues |-> agg.Issues \o r.resp.Issues,
                       Errors |-> agg.Errors \o
                           [j \in 1..Len(r.resp.Errors) |->
                               [FailedElementNumber |->
                                    r.resp.Errors[j].FailedElementNumber + i,
                                ElementErrors |->
                                    r.resp.Errors[j].ElementErrors]]],
                      made \o [j \in 1..Len(r.made) |->
                                  [Key |-> r.made[j].Key,
                                   Elem |-> r.made[j].Elem + i]])
                  IN  [rest EXCEPT !.sent = <<batch>> \o @]

\* Number of requests BulkCreateIssues sends for n issues.
NumChunks(n) ==
    IF n <= maxBatchSize THEN 1 ELSE (n + maxBatchSize - 1) \div maxBatchSize

\* IssueService.BulkCreateIssues
BulkCreateIssues(issues, outs, first) ==
    IF Len(issues) <= maxBatchSize
    THEN bulkCreateBatch(issues, Head(outs), first)
    ELSE bulkCreateChunks(issues, outs, first, 0, NoResponse, <<>>)

\* ------------------------------------------------- package cmd, batch create
\* separateEpics comparing the type with "epic" as it is written.
separateEpicsCaseSensitive(items) ==
    LET isEpic(item) == item.Type = <<"e", "p", "i", "c">>
        isOther(item) == ~isEpic(item)
    IN  [epics |-> SelectSeq(items, isEpic), others |-> SelectSeq(items, isOther)]

\* separateEpics: the epics and the others, each in input order.
separateEpics(items) ==
    LET isEpic(item) == ToLower(item.Type) = <<"e", "p", "i", "c">>
        isOther(item) == ~isEpic(item)
    IN  [epics |-> SelectSeq(items, isEpic), others |-> SelectSeq(items, isOther)]

\* resolveString that stores the trimmed text when the id is not mapped.
resolveStringKeepsTrimmed(val, idToKey) ==
    IF HasPrefix(val.v, "@")
    THEN (IF TrimPrefix(val.v, "@") \in DOMAIN idToKey
          THEN Str(idToKey[TrimPrefix(val.v, "@")])
          ELSE Str(TrimPrefix(val.v, "@")))
    ELSE val

\* The string case of resolveFieldReferences: a value that starts with "@"
\* and names a mapped id becomes the issue key.
resolveString(val, idToKey) ==
    IF HasPrefix(val.v, "@") /\ TrimPrefix(val.v, "@") \in DOMAIN idToKey
    THEN Str(idToKey[TrimPrefix(val.v, "@")])
    ELSE val

\* resolveFieldReferences: the fields map after the in-place update.
RECURSIVE resolveFieldReferences(_, _)
resolveFieldReferences(fields, idToKey) ==
    [key \in DOMAIN fields |->
        LET value == fields[key]
        IN  CASE value.t = "str" -> resolveString(value, idToKey)
              [] value.t = "map" -> Map(resolveFieldReferences(value.v, idToKey))
              [] value.t = "seq" ->
                   Seq_([j \in 1..Len(value.v) |->
                       LET item == value.v[j]
                       IN  IF item.t = "map"
                           THEN Map(resolveFieldReferences(item.v, idToKey))
                           ELSE IF item.t = "str"
                           THEN resolveString(item, idToKey)
                           ELSE item])
              [] OTHER -> value]

\* resolveReferences
resolveReferences(items, idToKey) ==
    [i \in 1..Len(items) |->
        [items[i] EXCEPT !.Fields = resolveFieldReferences(@, idToKey)]]

epicFields == <<"epic", "epicKey", "EpicKey", "epic_link", "customfield_10014">>

\* findEpicKey: the first of epicFields that the fields hold, "" when it is
\* not a string or none is held.
RECURSIVE findEpicKeyFrom(_, _)
findEpicKeyFrom(fields, i) ==
    IF i > Len(epicFields) THEN EmptyStr
    ELSE IF epicFields[i] \in DOMAIN fields /\ fields[epicFields[i]].t = "str"
         THEN fields[epicFields[i]].v
         ELSE findEpicKeyFrom(fields, i + 1)

findEpicKey(fields) == findEpicKeyFrom(fields, 1)

\* strings.Join
RECURSIVE Join(_, _)
Join(parts, sep) ==
    IF parts = <<>> THEN EmptyStr
    ELSE IF Len(parts) = 1 THEN parts[1]
    ELSE parts[1] \o sep \o Join(Tail(parts), sep)

\* formatBulkError (the model's error bodies carry at most one entry in
\* Errors, so the order of the map iteration does not show).
formatBulkError(errResp) ==
    LET m1 == IF Len(errResp.ErrorMessages) > 0
              THEN <<Join(errResp.ErrorMessages, <<"; ">>)>>
              ELSE <<>>
        m2 == IF DOMAIN errResp.Errors # {}
              THEN LET field == CHOOSE f \in DOMAIN errResp.Errors : TRUE
                   IN  <<field \o <<": ">> \o errResp.Errors[field]>>
              ELSE <<>>
        messages == m1 \o m2
    IN  IF Len(messages) = 0 THEN <<"unknown error">>
        ELSE Join(messages, <<"; ">>)

\* createBatchFailed that records the error for the first item only.
createBatchFailedFirstOnly(items, msg, result) ==
    [result EXCEPT !.Errors = Append(@,
        [Index |-> items[1].Index, Error |-> msg, Data |-> items[1].RawData])]

\* createBatch, the branch taken when BulkCreateIssues returns an error:
\* one error entry per item of the group.
createBatchFailed(items, msg, result) ==
    [result EXCEPT !.Errors = @ \o
        [i \in 1..Len(items) |->
            [Index |-> items[i].Index, Error |-> msg, Data |-> items[i].RawData]]]

\* createBatch, the loop over response.Issues, started from acc (result
\* and idToKey): position i of the response is paired with items[i], a
\* position past the items is skipped; each pair appends one created entry
\* and, when the item has an id, assigns idToKey[item.ID], so that the last
\* assignment to an id is the one that stays.
processCreated(items, issues, acc) ==
    LET n == Min(Len(issues), Len(items))
        summary(item) == LET s == Get(item.Fields, "summary")
                         IN  IF s.t = "str" THEN s.v ELSE EmptyStr
        ids == { items[j].ID : j \in { k \in 1..n : items[k].ID # EmptyStr } }
        last(id) == CHOOSE j \in 1..n :
                        /\ items[j].ID = id
                        /\ \A k \in (j + 1)..n : items[k].ID # id
    IN  [result |-> [acc.result EXCEPT !.Created = @ \o
                        [j \in 1..n |-> [Key |-> issues[j].Key,
                                         Type |-> items[j].Type,
                                         Summary |-> summary(items[j])]]],
         idToKey |-> [id \in (DOMAIN acc.idToKey) \cup ids |->
                         IF id \in ids THEN issues[last(id)].Key
                         ELSE acc.idToKey[id]]]

\* processErrors that reports the position inside the submitted group.
RECURSIVE processErrorsGroupPosition(_, _, _, _)
processErrorsGroupPosition(items, errors, j, result) ==
    IF j > Len(errors) THEN result
    ELSE LET bulkErr == errors[j]
             idx == bulkErr.FailedElementNumber
         IN  IF idx < Len(items)
             THEN processErrorsGroupPosition(items, errors, j + 1,
                      [result EXCEPT !.Errors =
                          Append(@, [Index |-> idx,
                                     Error |-> formatBulkError(bulkErr.ElementErrors),
                                     Data |-> items[idx + 1].RawData])])
             ELSE processErrorsGroupPosition(items, errors, j + 1, result)

\* createBatch, the loop over response.Errors from position j (1-based) on.
RECURSIVE processErrors(_, _, _, _)
processErrors(items, errors, j, result) ==
    IF j > Len(errors) THEN result
    ELSE LET bulkErr == errors[j]
             idx == bulkErr.FailedElementNumber
         IN  IF idx < Len(items)
             THEN processErrors(items, errors, j + 1,
                      [result EXCEPT !.Errors =
                          Append(@, [Index |-> items[idx + 1].Index,
                                     Error |-> formatBulkError(bulkErr.ElementErrors),
                                     Data |-> items[idx + 1].RawData])])
             ELSE processErrors(items, errors, j + 1, result)

\* createBatch: result and idToKey after the group was submitted and r, the
\* answer of BulkCreateIssues, was processed.
createBatch(items, r, result, idToKey) ==
    IF r.err
    THEN [result |-> createBatchFailed(items, r.msg, result), idToKey |-> idToKey]
    ELSE LET acc == processCreated(items, r.resp.Issues,
                        [result |-> result, idToKey |-> idToKey])
         IN  [result |-> processErrors(items, r.resp.Errors, 1, acc.result),
              idToKey |-> acc.idToKey]

\* ------------------------------------------------------------------ inputs
IdA == <<"a">>

RefA == <<"@", "a">>

RefB == <<"@", "b">>

TextWithRefA == <<"see ", "@", "a", " for details">>

ProjectKey == <<"PROJ">>

\* One entry of the batch file: {"template", "id", "data"}.
BatchItem(template, id, project, epicKey) ==
    [Template |-> template, ID |-> id,
     Data |-> [k \in {"Project", "EpicKey"} |->
                  IF k = "Project" THEN project ELSE epicKey]]

\* The entries the batch file is made of (each gets its own Summary).
ItemVariants ==
    { BatchItem("epic", EmptyStr, ProjectKey, EmptyStr),
      BatchItem("epic", IdA, ProjectKey, EmptyStr),
      BatchItem("story", EmptyStr, ProjectKey, RefA),
      BatchItem("story", EmptyStr, ProjectKey, RefB),
      BatchItem("story", EmptyStr, ProjectKey, TextWithRefA),
      BatchItem("story", IdA, ProjectKey, RefA),
      BatchItem("task", EmptyStr, ProjectKey, RefA),
      BatchItem("nope", EmptyStr, ProjectKey, EmptyStr),
      BatchItem("bad", EmptyStr, ProjectKey, EmptyStr),
      BatchItem("story", EmptyStr, NullText, RefA) }

SummaryOf(i) == <<"summary ", ToString(i)>>

\* The batch files: up to MaxItems entries, entry i (0-based) with the
\* summary SummaryOf(i).
BatchFiles ==
    UNION { { [i \in 1..n |-> [q[i] EXCEPT !.Data = Put(@, "Summary", SummaryOf(i - 1))]] :
                q \in [1..n -> ItemVariants] } : n \in 0..MaxItems }

\* Error bodies the site reports for a failed element.
ElementErrorBodies ==
    { [ErrorMessages |-> <<>>, Errors |-> EmptyMap],
      [ErrorMessages |-> << <<"bad request">> >>,
       Errors |-> [f \in { <<"summary">> } |-> <<"is required">>]] }

\* Errors of a whole request.
RequestErrors ==
    { <<"failed to bulk create issues: ", "timeout">>,
      <<"API error: ", "unauthorized">> }

\* What the site can do with one request of n elements.
Outcomes(n) ==
    { [err |-> TRUE, msg |-> m, mask |-> [i \in 1..n |-> FALSE],
       elementErrors |-> [ErrorMessages |-> <<>>, Errors |-> EmptyMap]] :
          m \in RequestErrors }
    \cup
    { o \in [err : {FALSE}, msg : {EmptyStr}, mask : [1..n -> BOOLEAN],
             elementErrors : ElementErrorBodies] :
          (\A i \in 1..n : o.mask[i]) => o.elementErrors.ErrorMessages = <<>> }

\* What the site does with one request of a list sent in several requests:
\* the request fails, every element is created, or only the first fails.
ChunkOutcomes(n) ==
    { [err |-> TRUE, msg |-> m, mask |-> [i \in 1..n |-> FALSE],
       elementErrors |-> [ErrorMessages |-> <<>>, Errors |-> EmptyMap]] :
          m \in RequestErrors }
    \cup
    { [err |-> FALSE, msg |-> EmptyStr, mask |-> [i \in 1..n |-> all \/ i # 1],
       elementErrors |-> [ErrorMessages |-> <<>>, Errors |-> EmptyMap]] :
          all \in BOOLEAN }

\* Number of elements of request c (1-based) of a list of n issues.
ChunkSize(n, c) == Min(maxBatchSize, n - (c - 1) * maxBatchSize)

\* What the site does with the requests BulkCreateIssues sends for n issues.
OutcomeSeqs(n) ==
    IF n <= maxBatchSize
    THEN [1..1 -> Outcomes(n)]
    ELSE { outs \in [1..NumChunks(n) ->
                        UNION { ChunkOutcomes(ChunkSize(n, c)) : c \in 1..NumChunks(n) }] :
               \A c \in 1..NumChunks(n) : outs[c] \in ChunkOutcomes(ChunkSize(n, c)) }

\* Batch files with a group that is sent in several requests: ChunkedItems
\* stories, ChunkedItems epics, or one epic followed by ChunkedItems stories.
ChunkFiles ==
    { [i \in 1..ChunkedItems |->
          [it EXCEPT !.Data = Put(@, "Summary", SummaryOf(i - 1))]] :
        it \in { BatchItem("story", EmptyStr, ProjectKey, RefB),
                 BatchItem("epic", EmptyStr, ProjectKey, EmptyStr) } }
    \cup
    { [i \in 1..(ChunkedItems + 1) |->
          [(IF i = 1 THEN BatchItem("epic", EmptyStr, ProjectKey, EmptyStr)
            ELSE BatchItem("story", EmptyStr, ProjectKey, RefB))
           EXCEPT !.Data = Put(@, "Summary", SummaryOf(i - 1))]] }

\* ------------------------------------------------ package jira, ADF renderer
\* The strings of the renderer are sequences of pieces in which every
\* newline, space and tab is a piece of its own, so that strings.TrimRight,
\* strings.TrimSpace, strings.Split and strings.ReplaceAll are computed
\* piece by piece.
NL == "\n"

\* unicode.IsSpace on the pieces that occur
WhiteSpace == {" ", NL, "\t"}

\* The bullet rune U+2022, one piece.
Bullet == "(U+2022)"

Bool(b) == [t |-> "bool", v |-> b]

\* strings.TrimRight(s, cutset)
RECURSIVE TrimRight(_, _)
TrimRight(s, cutset) ==
    IF s # <<>> /\ s[Len(s)] \in cutset
    THEN TrimRight(SubSeq(s, 1, Len(s) - 1), cutset)
    ELSE s

\* strings.TrimLeft(s, cutset)
RECURSIVE TrimLeft(_, _)
TrimLeft(s, cutset) ==
    IF s # <<>> /\ s[1] \in cutset THEN TrimLeft(Tail(s), cutset) ELSE s

\* strings.TrimSpace
TrimSpace(s) == TrimLeft(TrimRight(s, WhiteSpace), WhiteSpace)

\* strings.Split(s, sep) for a separator of one piece
RECURSIVE Split(_, _)
Split(s, sep) ==
    IF \A k \in 1..Len(s) : s[k] # sep THEN <<s>>
    ELSE LET k == CHOOSE x \in 1..Len(s) :
                      s[x] = sep /\ \A y \in 1..(x - 1) : s[y] # sep
         IN  <<SubSeq(s, 1, k - 1)>> \o Split(SubSeq(s, k + 1, Len(s)), sep)

\* strings.ReplaceAll(s, old, new) for old of one piece
RECURSIVE ReplaceAll(_, _, _)
ReplaceAll(s, old, new) ==
    IF s = <<>> THEN <<>>
    ELSE (IF s[1] = old THEN new ELSE <<s[1]>>) \o ReplaceAll(Tail(s), old, new)

\* strings.Repeat
RECURSIVE Repeat(_, _)
Repeat(s, n) == IF n <= 0 THEN <<>> ELSE s \o Repeat(s, n - 1)

\* fmt.Sprintf("%d", n) for n >= 0: one piece per digit
RECURSIVE Itoa(_)
Itoa(n) == IF n < 10 THEN <<ToString(n)>> ELSE Itoa(n \div 10) \o <<ToString(n % 10)>>

\* v.(string) with the zero value "" when v is not a string
AsString(val) == IF val.t = "str" THEN val.v ELSE <<>>

\* What a call writes to its strings.Builder, or the run-time panic that
\* ends it.
Wrote(s) == [panic |-> FALSE, s |-> s]

Panic == [panic |-> TRUE, s |-> <<>>]

\* Two writes in sequence; a panic in the first means the second never runs.
Then(a, b) ==
    IF a.panic THEN Panic
    ELSE IF b.panic THEN Panic
    ELSE Wrote(a.s \o b.s)

RECURSIVE processADFNode(_, _, _)
RECURSIVE processChildren(_, _)
RECURSIVE childrenFrom(_, _, _)
RECURSIVE processListItems(_, _, _)
RECURSIVE listItemsFrom(_, _, _, _)
RECURSIVE itemChildrenFrom(_, _, _, _)

\* processChildren, the loop over content from position k (1-based) on:
\* children that are not nodes are skipped.
childrenFrom(content, k, depth) ==
    IF k > Len(content) THEN Wrote(<<>>)
    ELSE Then(IF content[k].t = "map"
              THEN processADFNode(content[k].v, depth, 0)
              ELSE Wrote(<<>>),
              childrenFrom(content, k + 1, depth))

\* processChildren
processChildren(node, depth) ==
    LET content == Get(node, "content")
    IN  IF content.t # "seq" THEN Wrote(<<>>)
        ELSE childrenFrom(content.v, 1, depth)

\* processListItems, lines 190-212: the loop over the children of one list
\* item from position j on.  st.res is what went to result and st.buf is
\* itemBuf; a nested list flushes itemBuf and is written to result at
\* depth+1, any other child is written to itemBuf at depth+1.
itemChildrenFrom(itemContent, j, depth, st) ==
    IF j > Len(itemContent) \/ st.panic THEN st
    ELSE LET child == itemContent[j]
             childType == AsString(Get(child.v, "type"))
             flushed == IF st.buf # <<>>
                        THEN [st EXCEPT !.res = @ \o TrimRight(st.buf, {NL}) \o <<NL>>,
                                        !.buf = <<>>]
                        ELSE st
             r == processADFNode(child.v, depth + 1, 0)
         IN  IF child.t # "map"
             THEN itemChildrenFrom(itemContent, j + 1, depth, st)
             ELSE IF childType = <<"bulletList">> \/ childType = <<"orderedList">>
             THEN itemChildrenFrom(itemContent, j + 1, depth,
                      [flushed EXCEPT !.res = @ \o r.s, !.panic = r.panic])
             ELSE itemChildrenFrom(itemContent, j + 1, depth,
                      [st EXCEPT !.buf = @ \o r.s, !.panic = r.panic])

\* processListItems, lines 190-221: what one list item writes to result
\* after its marker.
listItemBody(itemMap, depth) ==
    LET indent == Repeat(<<" ", " ">>, depth)
        itemContent == Get(itemMap, "content")
        st == IF itemContent.t = "seq"
              THEN itemChildrenFrom(itemContent.v, 1, depth,
                       [res |-> <<>>, buf |-> <<>>, panic |-> FALSE])
              ELSE [res |-> <<>>, buf |-> <<>>, panic |-> FALSE]
        text == ReplaceAll(TrimRight(st.buf, {NL}), NL, <<NL>> \o indent \o <<" ", " ">>)
    IN  IF st.panic THEN Panic
        ELSE IF st.buf # <<>> THEN Wrote(st.res \o text \o <<NL>>)
        ELSE Wrote(st.res)

\* processListItems, lines 180-185: the marker of the child at index i
\* (0-based) of the list's content.
listMarker(i, ordered) ==
    IF ordered THEN Itoa(i + 1) \o <<".", " ">> ELSE <<Bullet, " ">>

\* processListItems, the loop over content from position k (1-based) on.
listItemsFrom(content, k, depth, ordered) ==
    IF k > Len(content) THEN Wrote(<<>>)
    ELSE Then(IF content[k].t = "map"
              THEN Then(Wrote(Repeat(<<" ", " ">>, depth) \o listMarker(k - 1, ordered)),
                        listItemBody(content[k].v, depth))
              ELSE Wrote(<<>>),
              listItemsFrom(content, k + 1, depth, ordered))

\* processListItems
processListItems(node, depth, ordered) ==
    LET content == Get(node, "content")
    IN  IF content.t # "seq" THEN Wrote(<<>>)
        ELSE listItemsFrom(content.v, 1, depth, ordered)

\* processMediaNode, lines 236-258: what one child of a media container
\* writes.
mediaPlaceholder(item) ==
    LET nodeType == AsString(Get(item.v, "type"))
        a == Get(item.v, "attrs")
        attrs == IF a.t = "map" THEN a.v ELSE EmptyMap
        mediaType == AsString(Get(attrs, "type"))
        alt == Get(attrs, "alt")
        url == Get(attrs, "url")
    IN  IF item.t # "map" \/ nodeType # <<"media">> THEN <<>>
        ELSE IF mediaType = <<"file">>
        THEN IF alt.t = "str" /\ alt.v # <<>>
             THEN <<"[File:", " ">> \o alt.v \o <<"]", NL>>
             ELSE <<"[File]", NL>>
        ELSE IF mediaType = <<"external">>
        THEN IF url.t = "str"
             THEN <<"[Image:", " ">> \o url.v \o <<"]", NL>>
             ELSE <<"[Image]", NL>>
        ELSE <<"[Media]", NL>>

RECURSIVE mediaFrom(_, _)
\* processMediaNode, the loop over content from position k on.
mediaFrom(content, k) ==
    IF k > Len(content) THEN <<>>
    ELSE mediaPlaceholder(content[k]) \o mediaFrom(content, k + 1)

\* processMediaNode
processMediaNode(node) ==
    LET content == Get(node, "content")
    IN  IF content.t # "seq" THEN Wrote(<<"[Media]", NL>>)
        ELSE Wrote(mediaFrom(content.v, 1))

RECURSIVE cellsFrom(_, _)
\* processTableRow, lines 284-292: the texts of the cells from position k on,
\* with a panic flag.
cellsFrom(content, k) ==
    IF k > Len(content) THEN [panic |-> FALSE, cells |-> <<>>]
    ELSE LET rest == cellsFrom(content, k + 1)
             r == processChildren(content[k].v, 0)
             cellText == ReplaceAll(TrimSpace(r.s), NL, <<" ">>)
         IN  IF content[k].t # "map" THEN rest
             ELSE IF r.panic \/ rest.panic THEN [panic |-> TRUE, cells |-> <<>>]
             ELSE [panic |-> FALSE, cells |-> <<cellText>> \o rest.cells]

\* processTableRow
processTableRow(node) ==
    LET content == Get(node, "content")
        c == cellsFrom(content.v, 1)
    IN  IF content.t # "seq" THEN Wrote(<<>>)
        ELSE IF c.panic THEN Panic
        ELSE Wrote(<<"|", " ">> \o Join(c.cells, <<" ", "|", " ">>) \o <<" ", "|", NL>>)

RECURSIVE rowsFrom(_, _)
\* processTableNode, the loop over content from position k on.
rowsFrom(content, k) ==
    IF k > Len(content) THEN Wrote(<<>>)
    ELSE Then(IF content[k].t = "map" THEN processTableRow(content[k].v)
              ELSE Wrote(<<>>),
              rowsFrom(content, k + 1))

\* processTableNode
processTableNode(node) ==
    LET content == Get(node, "content")
    IN  IF content.t # "seq" THEN Wrote(<<>>)
        ELSE Then(rowsFrom(content.v, 1), Wrote(<<NL>>))

RECURSIVE quoteLines(_)
\* processADFNode, lines 99-103: every line prefixed with "> ".
quoteLines(lines) ==
    IF lines = <<>> THEN <<>>
    ELSE <<">", " ">> \o Head(lines) \o <<NL>> \o quoteLines(Tail(lines))

\* processADFNode, attribute attr of an inlineCard, mention or emoji node:
\* written when attrs is a map that holds it as a string.
inlineAttr(node, attr) ==
    LET attrs == Get(node, "attrs")
        val == IF attrs.t = "map" THEN Get(attrs.v, attr) ELSE Nil
    IN  IF val.t = "str" THEN Wrote(val.v) ELSE Wrote(<<>>)

\* processADFNode, lines 86-92
codeBlock(node, depth) ==
    LET attrs == Get(node, "attrs")
        lang == Get(attrs.v, "language")
    IN  IF attrs.t # "map" THEN Panic
        ELSE Then(IF lang.t = "str" /\ lang.v # <<>>
                  THEN Wrote(<<"[">> \o lang.v \o <<"]", NL>>)
                  ELSE Wrote(<<>>),
                  Then(processChildren(node, depth), Wrote(<<NL>>)))

\* The default case adding a line break after the children.
processUnknownAsParagraph(node, depth) ==
    Then(processChildren(node, depth), Wrote(<<NL>>))

\* processADFNode, lines 148-150: the default case
processUnknown(node, depth) == processChildren(node, depth)

\* processADFNode
processADFNode(node, depth, listIndex) ==
    LET nodeType == AsString(Get(node, "type"))
        quoted == processChildren(node, depth)
    IN  CASE nodeType = <<"doc">> -> processChildren(node, depth)
          [] nodeType \in {<<"paragraph">>, <<"heading">>} ->
                Then(processChildren(node, depth), Wrote(<<NL>>))
          [] nodeType = <<"text">> -> Wrote(AsString(Get(node, "text")))
          [] nodeType = <<"hardBreak">> -> Wrote(<<NL>>)
          [] nodeType = <<"codeBlock">> -> codeBlock(node, depth)
          [] nodeType = <<"blockquote">> ->
                IF quoted.panic THEN Panic
                ELSE Wrote(quoteLines(Split(TrimRight(quoted.s, {NL}), NL)))
          [] nodeType = <<"bulletList">> -> processListItems(node, depth, FALSE)
          [] nodeType = <<"orderedList">> -> processListItems(node, depth, TRUE)
          [] nodeType = <<"listItem">> -> processChildren(node, depth)
          [] nodeType \in {<<"mediaSingle">>, <<"mediaGroup">>} -> processMediaNode(node)
          [] nodeType = <<"rule">> -> Wrote(<<"---", NL>>)
          [] nodeType = <<"table">> -> processTableNode(node)
          [] nodeType = <<"inlineCard">> -> inlineAttr(node, "url")
          [] nodeType = <<"mention">> -> inlineAttr(node, "text")
          [] nodeType = <<"emoji">> -> inlineAttr(node, "shortName")
          [] OTHER -> processUnknown(node, depth)

\* ADFToPlainText that also trims the strings it is given.
ADFToPlainTextTrimsStrings(input) ==
    LET r == processADFNode(input.v, 0, 0)
    IN  IF input.t = "nil" THEN Wrote(<<>>)
        ELSE IF input.t = "str" THEN Wrote(TrimRight(input.v, {NL}))
        ELSE IF input.t # "map" THEN Wrote(<<>>)
        ELSE IF r.panic THEN Panic
        ELSE Wrote(TrimRight(r.s, {NL}))

\* ADFToPlainText
ADFToPlainText(input) ==
    LET r == processADFNode(input.v, 0, 0)
    IN  IF input.t = "nil" THEN Wrote(<<>>)
        ELSE IF input.t = "str" THEN Wrote(input.v)
        ELSE IF input.t # "map" THEN Wrote(<<>>)
        ELSE IF r.panic THEN Panic
        ELSE Wrote(TrimRight(r.s, {NL}))

\* ------------------------------------------------------- renderer inputs
\* Node maps as json.Unmarshal builds them (map[string]interface{}).
Typed(kind) == Put(EmptyMap, "type", Str(<<kind>>))

Node(kind, content) == Map(Put(Typed(kind), "content", Seq_(content)))

Leaf(kind) == Map(Typed(kind))

WithAttrs(node, attrs) == Map(Put(node.v, "attrs", Map(attrs)))

Attr(k, s) == Put(EmptyMap, k, Str(s))

Text(s) == Map(Put(Typed("text"), "text", Str(s)))

Hello == <<"Hello", " ", "world">>

\* A value that is not a node.
Junk == Num(<<"7">>)

\* Sequences over S of length at most n.
SeqsUpTo(S, n) == UNION { [1..k -> S] : k \in 0..n }

\* Inline nodes: text (plain, with a trailing space, with an inner newline,
\* without payload), hardBreak, and the attribute-carrying kinds with and
\* without their attribute.
InlineNodes ==
    { Text(Hello), Text(<<"a", " ">>), Text(<<"b", NL, "c">>), Leaf("text"),
      Leaf("hardBreak"),
      WithAttrs(Leaf("mention"), Attr("text", <<"@u">>)),
      Leaf("emoji"),
      WithAttrs(Leaf("inlineCard"), Attr("url", <<"http://x">>)) }

\* Children of a media container.
MediaChildren ==
    { WithAttrs(Leaf("media"), Put(Attr("type", <<"file">>), "alt", Str(<<"shot.png">>))),
      WithAttrs(Leaf("media"), Attr("type", <<"file">>)),
      WithAttrs(Leaf("media"), Put(Attr("type", <<"external">>), "url", Str(<<"http://x">>))),
      WithAttrs(Leaf("media"), Attr("type", <<"external">>)),
      WithAttrs(Leaf("media"), Attr("type", <<"link">>)),
      Leaf("media"),
      Text(Hello),
      Junk }

\* mediaSingle and mediaGroup containers: without content, with content of
\* the wrong type, and with up to MaxMedia children.
MediaNodes ==
    { Leaf(k) : k \in {"mediaSingle", "mediaGroup"} }
    \cup { Map(Put(Typed("mediaSingle"), "content", Str(Hello))) }
    \cup { Node(k, c) : k \in {"mediaSingle", "mediaGroup"},
                        c \in SeqsUpTo(MediaChildren, MaxMedia) }

\* codeBlock with a language, with an empty language, with attrs that hold
\* no language, with attrs of the wrong type and without attrs.
CodeBlocks ==
    { WithAttrs(Node("codeBlock", <<Text(Hello)>>), Attr("language", <<"go">>)),
      WithAttrs(Node("codeBlock", <<Text(Hello)>>), Attr("language", <<>>)),
      WithAttrs(Node("codeBlock", <<Text(Hello)>>), EmptyMap),
      Map(Put(Node("codeBlock", <<Text(Hello)>>).v, "attrs", Str(<<"go">>))),
      Node("codeBlock", <<Text(Hello)>>),
      Leaf("codeBlock") }

Paragraph(s) == Node("paragraph", <<Text(s)>>)

ItemA == Node("listItem", <<Paragraph(<<"a">>)>>)

\* Children of a list: items with plain content, without content, with a
\* nested list after or before plain content, with a list two levels down,
\* with a list under a node of unknown kind, with a codeBlock that has no
\* attrs, and a value that is not a node.
ListChildren ==
    { ItemA,
      Leaf("listItem"),
      Junk,
      Node("listItem", <<Paragraph(<<"b", NL, "c">>),
                         Node("orderedList", <<ItemA, ItemA>>)>>),
      Node("listItem", <<Node("bulletList", <<ItemA>>), Paragraph(<<"d">>)>>),
      Node("listItem", <<Node("orderedList",
          <<Node("listItem", <<Node("orderedList", <<ItemA, ItemA>>)>>)>>)>>),
      Node("listItem", <<Node("futureType", <<Node("orderedList", <<ItemA>>)>>)>>),
      Node("listItem", <<Node("codeBlock", <<Text(Hello)>>)>>) }

ListNodes ==
    { Leaf(k) : k \in {"bulletList", "orderedList"} }
    \cup { Node(k, c) : k \in {"bulletList", "orderedList"},
                        c \in SeqsUpTo(ListChildren, MaxListItems) }

Cell(kind, s) == Node(kind, <<Paragraph(s)>>)

TableNodes ==
    { Leaf("table"),
      Node("table", <<Node("tableRow", <<Cell("tableHeader", <<" ", "h", " ">>),
                                         Cell("tableCell", <<"b", NL, "c">>)>>),
                      Junk,
                      Leaf("tableRow"),
                      Node("tableRow", <<Junk, Node("tableCell", <<Node("codeBlock", <<Text(Hello)>>)>>)>>)>>) }

\* Nodes of unknown kind, and nodes without a type.
UnknownNodes ==
    { Leaf("futureType"),
      Node("futureType", <<Text(Hello)>>),
      Node("futureType", <<Paragraph(<<"a">>), Junk, Text(<<"b">>)>>),
      Node("futureType", <<Node("codeBlock", <<Text(Hello)>>)>>),
      Map(Put(EmptyMap, "content", Seq_(<<Text(Hello)>>))),
      Map(Put(Typed("futureType"), "content", Str(Hello))) }

BlockNodes ==
    { Node(k, <<c>>) : k \in {"paragraph", "heading", "blockquote"}, c \in InlineNodes }
    \cup { Leaf(k) : k \in {"paragraph", "heading", "blockquote", "rule"} }
    \cup { Node("blockquote", <<Paragraph(<<"b", NL, "c">>), Paragraph(<<"d">>)>>) }
    \cup CodeBlocks \cup MediaNodes \cup ListNodes \cup TableNodes \cup UnknownNodes

\* Children of the documents with several blocks.
DocChildren ==
    { Paragraph(Hello), Paragraph(<<"a", " ">>), Leaf("paragraph"), Leaf("rule"),
      Node("codeBlock", <<Text(Hello)>>),
      Node("orderedList", <<Junk, ItemA>>),
      Node("mediaSingle", <<>>),
      Node("futureType", <<Text(Hello)>>),
      Junk }

Docs ==
    { Leaf("doc") }
    \cup { Node("doc", <<b>>) : b \in BlockNodes \cup InlineNodes }
    \cup { Node("doc", c) : c \in SeqsUpTo(DocChildren, MaxBlocks) }

\* Inputs that are not node maps.
PlainInputs ==
    { Nil, Str(<<>>), Str(<<"already", " ", "plain">>), Str(<<"x", NL, NL>>),
      Str(<<" ", "y", " ">>), Num(<<"42">>), Num(<<"3.14">>), Bool(TRUE),
      Seq_(<<Str(<<"a">>), Str(<<"b">>)>>) }

ADFInputs == PlainInputs \cup Docs \cup BlockNodes \cup InlineNodes

\* ------------------------------------------------------------------- state
\* ---------------------------------------------------------- pkg/allowlist
\* A command is a Go string: its words are pieces, and every space, tab and
\* comma is a piece of its own.
EnvCommandAllowlist == "JIRA_COMMAND_ALLOWLIST"

EnvReadOnly == "JIRA_READONLY"

Sub(parent, name) == <<parent, " ", name>>

ReadOnlyCommands ==
    << <<"get">>, <<"search">>, <<"list">>, <<"fields">>, <<"version">>,
       <<"help">>, Sub("attachment", "list"), Sub("comments", "list"),
       Sub("comments", "get"), Sub("link", "list"), Sub("link", "types") >>

WriteCommands ==
    << <<"create">>, <<"update">>, <<"transition">>, <<"comment">>,
       Sub("comments", "add"), Sub("comments", "update"),
       Sub("comments", "delete"), <<"batch">>, Sub("batch", "create"),
       <<"link">>, Sub("link", "create"), Sub("link", "delete"),
       Sub("attachment", "upload"), Sub("attachment", "delete"),
       <<"configure">>, <<"template">> >>

Elements(q) == { q[k] : k \in 1..Len(q) }

\* NewChecker that reads JIRA_COMMAND_ALLOWLIST first and falls back to
\* read-only mode when it is empty.
NewCheckerAllowlistFirst(environ) ==
    LET allowlist == environ[EnvCommandAllowlist]
        commands == Split(allowlist, ",")
    IN  IF allowlist # EmptyStr
        THEN [allowedCommands |->
                 { TrimSpace(ToLower(commands[k])) : k \in 1..Len(commands) }
                     \ {EmptyStr},
              readOnly |-> FALSE, enabled |-> TRUE]
        ELSE IF environ[EnvReadOnly] # EmptyStr
        THEN [allowedCommands |-> Elements(ReadOnlyCommands),
              readOnly |-> TRUE, enabled |-> TRUE]
        ELSE [allowedCommands |-> {}, readOnly |-> FALSE, enabled |-> FALSE]

\* NewChecker: the checker built from the environment; allowedCommands is
\* the set of keys of the map.
NewChecker(environ) ==
    LET allowlist == environ[EnvCommandAllowlist]
        commands == Split(allowlist, ",")
    IN  IF environ[EnvReadOnly] # EmptyStr
        THEN [allowedCommands |-> Elements(ReadOnlyCommands),
              readOnly |-> TRUE, enabled |-> TRUE]
        ELSE IF allowlist = EmptyStr
        THEN [allowedCommands |-> {}, readOnly |-> FALSE, enabled |-> FALSE]
        ELSE [allowedCommands |->
                 { TrimSpace(ToLower(commands[k])) : k \in 1..Len(commands) }
                     \ {EmptyStr},
              readOnly |-> FALSE, enabled |-> TRUE]

\* Checker.IsAllowed that accepts a command when an allowed command is the
\* first word of it.
IsAllowedByFirstWord(c, command) ==
    LET cmd == ToLower(TrimSpace(command))
    IN  IF ~c.enabled THEN TRUE
        ELSE IF cmd \in { <<"help">>, <<"version">>, <<"--help">>, <<"-h">> }
        THEN TRUE
        ELSE cmd \in c.allowedCommands
                 \/ (cmd # <<>> /\ <<cmd[1]>> \in c.allowedCommands)

\* Checker.IsAllowed
IsAllowed(c, command) ==
    LET cmd == ToLower(TrimSpace(command))
    IN  IF ~c.enabled THEN TRUE
        ELSE IF cmd \in { <<"help">>, <<"version">>, <<"--help">>, <<"-h">> }
        THEN TRUE
        ELSE cmd \in c.allowedCommands

\* Checker.Check: nil, or the error that names the command.
Check(c, command) ==
    IF ~IsAllowed(c, command)
    THEN IF c.readOnly
         THEN [err |-> TRUE,
               msg |-> <<"command '">> \o command \o
                       <<"' is blocked: JIRA_READONLY mode enabled (only read operations allowed)">>]
         ELSE [err |-> TRUE,
               msg |-> <<"command '">> \o command \o
                       <<"' is not in the allowlist (set via ",
                         EnvCommandAllowlist, ")">>]
    ELSE [err |-> FALSE, msg |-> EmptyStr]

\* Checker.GetAllowedCommands (the order of the slice is the map's).
GetAllowedCommands(c) == IF ~c.enabled THEN {} ELSE c.allowedCommands

\* Values of JIRA_READONLY.
ReadOnlyValues == { EmptyStr, <<"1">>, <<"false">> }

\* Values of JIRA_COMMAND_ALLOWLIST.
AllowlistValues ==
    { EmptyStr,
      <<"get", ",", "search">>,
      <<" ", "GET", " ", ",", "Create", ",", ",", " ">>,
      <<"create", ",", "comments", " ", "list">>,
      <<"comments">>,
      <<",">>,
      <<"batch", " ", "create", ",", "link", ",", "unknown">> }

Environments ==
    { [n \in {EnvReadOnly, EnvCommandAllowlist} |->
          IF n = EnvReadOnly THEN r ELSE a] :
        r \in ReadOnlyValues, a \in AllowlistValues }

\* The commands a caller asks about: the documented ones, the always
\* allowed ones, and variations in case, surrounding space, length.
AskedCommands ==
    Elements(ReadOnlyCommands) \cup Elements(WriteCommands) \cup
    { EmptyStr, <<" ">>, <<"GET">>, <<" ", "get", "\t">>, <<"ge">>, <<"getx">>,
      <<"get", " ", "x">>, <<"unknown">>, <<"--help">>, <<"-h">>, <<"-H">>,
      <<" ", "HELP", " ">>, <<"comments">>, <<"comments", " ">>,
      <<"comments", " ", "list", " ", "x">>, <<"Create">>, <<"delete">>,
      <<"batch", " ", "create", " ">> }

\* ------------------------------------------------- package cmd, the commands
\* A command of the tree: Name() (the first word of Use) and the Name() of
\* its parent; the parent of a top-level command is the root, "jira-cli".
Command(parent, name) == [parent |-> parent, name |-> name]

RootName == "jira-cli"

\* The commands that have a Run or RunE function (cobra runs the hooks of
\* no other command), and cobra's own help command.
RunnableCommands ==
    { Command(RootName, n) :
        n \in { "get", "transition", "list", "search", "allowlist", "link",
                "version", "create", "update", "comments", "comment",
                "configure", "attachment", "help" } }
    \cup { Command("fields", n) : n \in { "list", "map" } }
    \cup { Command("allowlist", n) : n \in { "status", "commands", "check", "enable" } }
    \cup { Command("template", n) : n \in { "init", "list", "show" } }
    \cup { Command("link", n) : n \in { "create", "types", "list", "delete" } }
    \cup { Command("comments", n) : n \in { "add", "list", "get", "update", "delete" } }
    \cup { Command("attachment", n) : n \in { "list", "upload", "download", "delete" } }
    \cup { Command("batch", n) : n \in { "create" } }

\* The command whose PersistentPreRunE cobra runs for c: the nearest one on
\* the way from c to the root that defines the hook.  templateCmd defines
\* one, no other command below the root does.
PreRunOwner(c) ==
    IF c.name = "template" \/ c.parent = "template" THEN "template" ELSE RootName

\* rootCmd.PersistentPreRunE, lines 38-42: the path given to Check.
CmdPath(c) ==
    IF c.parent # RootName THEN Sub(c.parent, c.name) ELSE <<c.name>>

\* The commands whose function calls the Jira site.
UsesAPI(c) ==
    /\ c.parent \notin { "allowlist", "template" }
    /\ c.name \notin { "allowlist", "version", "help", "comments", "attachment" }

\* ------------------------------------------------------------ pkg/secrets
\* The file backend.  Here a string is the sequence of its characters and
\* []byte the sequence of their codes.
Ascii ==
    [c \in { "{", "}", "\"", ":", ",", "_", "1", "2", "a", "b", "e", "i",
             "k", "n", "o", "p", "t", "w" } |->
        CASE c = "{" -> 123 [] c = "}" -> 125 [] c = "\"" -> 34
          [] c = ":" -> 58 [] c = "," -> 44 [] c = "_" -> 95
          [] c = "1" -> 49 [] c = "2" -> 50 [] c = "a" -> 97
          [] c = "b" -> 98 [] c = "e" -> 101 [] c = "i" -> 105
          [] c = "k" -> 107 [] c = "n" -> 110 [] c = "o" -> 111
          [] c = "p" -> 112 [] c = "t" -> 116 [] OTHER -> 119]

\* []byte(s)
Bytes(s) == [k \in 1..Len(s) |-> Ascii[s[k]]]

\* a ^ b on bytes
RECURSIVE Xor(_, _)
Xor(a, b) ==
    IF a = 0 /\ b = 0 THEN 0
    ELSE ((a + b) % 2) + 2 * Xor(a \div 2, b \div 2)

\* The padding character of base64; the other characters of the encoding
\* are written as the six bits they stand for.
Pad == 64

\* base64.StdEncoding.EncodeToString
RECURSIVE EncodeToString(_)
EncodeToString(b) ==
    IF b = <<>> THEN <<>>
    ELSE IF Len(b) = 1
    THEN <<b[1] \div 4, (b[1] % 4) * 16, Pad, Pad>>
    ELSE IF Len(b) = 2
    THEN <<b[1] \div 4, (b[1] % 4) * 16 + b[2] \div 16, (b[2] % 16) * 4, Pad>>
    ELSE <<b[1] \div 4, (b[1] % 4) * 16 + b[2] \div 16,
           (b[2] % 16) * 4 + b[3] \div 64, b[3] % 64>>
         \o EncodeToString(SubSeq(b, 4, Len(b)))

\* base64.StdEncoding.DecodeString
RECURSIVE DecodeString(_)
DecodeString(t) ==
    IF t = <<>> THEN [err |-> FALSE, v |-> <<>>]
    ELSE IF Len(t) < 4 \/ t[1] = Pad \/ t[2] = Pad
    THEN [err |-> TRUE, v |-> <<>>]
    ELSE IF t[3] = Pad
    THEN [err |-> t[4] # Pad \/ Len(t) > 4,
          v |-> <<t[1] * 4 + t[2] \div 16>>]
    ELSE IF t[4] = Pad
    THEN [err |-> Len(t) > 4,
          v |-> <<t[1] * 4 + t[2] \div 16, (t[2] % 16) * 16 + t[3] \div 4>>]
    ELSE LET rest == DecodeString(SubSeq(t, 5, Len(t)))
         IN  [err |-> rest.err,
              v |-> <<t[1] * 4 + t[2] \div 16, (t[2] % 16) * 16 + t[3] \div 4,
                      (t[3] % 4) * 64 + t[4]>> \o rest.v]

\* encrypt: XOR with the password, then base64.
encrypt(data, password) ==
    LET key == Bytes(password)
    IN  EncodeToString([k \in 1..Len(data) |->
                           Xor(data[k], key[((k - 1) % Len(key)) + 1])])

\* decrypt: base64, then XOR with the password.
decrypt(data, password) ==
    LET decoded == DecodeString(data)
        key == Bytes(password)
    IN  [err |-> decoded.err,
         v |-> [k \in 1..Len(decoded.v) |->
                   Xor(decoded.v[k], key[((k - 1) % Len(key)) + 1])]]

\* Credentials{APIToken: token}
Credentials(token) == [APIToken |-> token]

NoCredentials == Credentials(<<>>)

\* The accounts, in the order in which json.Marshal writes map keys.
Accounts == << <<"a">>, <<"b">> >>

Tokens == { <<"t", "1">>, <<"t", "2">> }

\* json.Marshal of one *Credentials
MarshalCredentials(c) ==
    <<"{", "\"", "a", "p", "i", "_", "t", "o", "k", "e", "n", "\"", ":", "\"">>
        \o c.APIToken \o <<"\"", "}">>

\* json.Marshal of map[string]*Credentials: the keys in sorted order.
RECURSIVE MarshalFrom(_, _, _)
MarshalFrom(allCreds, k, first) ==
    IF k > Len(Accounts) THEN <<>>
    ELSE IF Accounts[k] \notin DOMAIN allCreds
    THEN MarshalFrom(allCreds, k + 1, first)
    ELSE (IF first THEN <<>> ELSE <<",">>)
         \o <<"\"">> \o Accounts[k] \o <<"\"", ":">>
         \o MarshalCredentials(allCreds[Accounts[k]])
         \o MarshalFrom(allCreds, k + 1, FALSE)

Marshal(allCreds) == Bytes(<<"{">> \o MarshalFrom(allCreds, 1, TRUE) \o <<"}">>)

NoAccounts == [a \in {} |-> NoCredentials]

\* The values of map[string]*Credentials that occur.
CredentialMaps ==
    UNION { [dom -> { Credentials(t) : t \in Tokens }] :
                dom \in SUBSET Elements(Accounts) }

\* json.Unmarshal into map[string]*Credentials: the map a text stands
\* for, or an error for bytes that are no JSON text.
Unmarshal(data) ==
    IF \E m \in CredentialMaps : Marshal(m) = data
    THEN [err |-> FALSE, v |-> CHOOSE m \in CredentialMaps : Marshal(m) = data]
    ELSE [err |-> TRUE, v |-> NoAccounts]

ErrPasswordRequired ==
    <<"password required for file backend (set JIRA_KEYRING_PASSWORD)">>

NoFile == [exists |-> FALSE, data |-> <<>>]

File(data) == [exists |-> TRUE, data |-> data]

\* Store.storeFile that writes a file with the one account alone.
storeFileAlone(file, password, account, creds) ==
    IF password = EmptyStr THEN [err |-> ErrPasswordRequired, file |-> file]
    ELSE [err |-> EmptyStr,
          file |-> File(encrypt(Marshal(Put(NoAccounts, account, creds)),
                                password))]

\* Store.storeFile: the error returned ("" for nil) and the credentials
\* file afterwards.
storeFile(file, password, account, creds) ==
    IF password = EmptyStr THEN [err |-> ErrPasswordRequired, file |-> file]
    ELSE LET decrypted == decrypt(file.data, password)
             parsed == Unmarshal(decrypted.v)
             allCreds == IF file.exists /\ ~decrypted.err /\ ~parsed.err
                         THEN parsed.v ELSE NoAccounts
         IN  [err |-> EmptyStr,
              file |-> File(encrypt(Marshal(Put(allCreds, account, creds)),
                                    password))]

\* Store.retrieveFile: the error returned and the credentials.
retrieveFile(file, password, account) ==
    LET decrypted == decrypt(file.data, password)
        parsed == Unmarshal(decrypted.v)
        notFound == <<"no credentials found for account ">> \o account
    IN  IF password = EmptyStr
        THEN [err |-> ErrPasswordRequired, creds |-> NoCredentials]
        ELSE IF ~file.exists THEN [err |-> notFound, creds |-> NoCredentials]
        ELSE IF decrypted.err
        THEN [err |-> <<"failed to decrypt credentials">>, creds |-> NoCredentials]
        ELSE IF parsed.err
        THEN [err |-> <<"failed to parse credentials">>, creds |-> NoCredentials]
        ELSE IF account \notin DOMAIN parsed.v
        THEN [err |-> notFound, creds |-> NoCredentials]
        ELSE [err |-> EmptyStr, creds |-> parsed.v[account]]

\* Store.deleteFile: the error returned and the credentials file afterwards.
deleteFile(file, password, account) ==
    LET decrypted == decrypt(file.data, password)
        parsed == Unmarshal(decrypted.v)
    IN  IF password = EmptyStr THEN [err |-> ErrPasswordRequired, file |-> file]
        ELSE IF ~file.exists THEN [err |-> EmptyStr, file |-> file]
        ELSE IF decrypted.err
        THEN [err |-> <<"failed to decrypt credentials">>, file |-> file]
        ELSE IF parsed.err
        THEN [err |-> <<"failed to parse credentials">>, file |-> file]
        ELSE [err |-> EmptyStr,
              file |-> File(encrypt(
                  Marshal([a \in (DOMAIN parsed.v) \ {account} |-> parsed.v[a]]),
                  password))]

\* Values of JIRA_KEYRING_PASSWORD.
Password == <<"p", "w">>

Passwords == { EmptyStr, Password }

\* ------------------------------------------------- pkg/template, resolver
\* A path is the sequence <<directory, "/", base name, extension>>; the
\* file system is the set of the paths that exist.
YamlExt == ".yaml"

\* filepath.Join(dir, name + ".yaml")
TemplatePath(dir, name) == <<dir, "/", name, YamlExt>>

\* os.Stat(path) returns no error
Stat(fs, path) == path \in fs

\* The template names, in the order in which filepath.Glob sorts them.
TemplateNames == <<"epic", "story">>

\* filepath.Glob(filepath.Join(dir, "*.yaml")): the matching paths, sorted.
Glob(fs, dir) ==
    LET matches(name) == TemplatePath(dir, name) \in fs
        names == SelectSeq(TemplateNames, matches)
    IN  [k \in 1..Len(names) |-> TemplatePath(dir, names[k])]

\* strings.TrimSuffix(filepath.Base(f), ".yaml")
BaseName(f) == f[3]

\* searchPaths with the user directory in front.
searchPathsUserFirst(r) ==
    << [dir |-> r.UserDir, source |-> "user"],
       [dir |-> r.ExplicitDir, source |-> "explicit"],
       [dir |-> r.LocalDir, source |-> "local"],
       [dir |-> r.ConfigDir, source |-> "config"] >>

\* The directories of the resolver in priority order, each with its label.
searchPaths(r) ==
    << [dir |-> r.ExplicitDir, source |-> "explicit"],
       [dir |-> r.LocalDir, source |-> "local"],
       [dir |-> r.ConfigDir, source |-> "config"],
       [dir |-> r.UserDir, source |-> "user"] >>

NoPath == <<>>

\* TemplateResolver.Resolve, the loop from search path k on; searched is
\* searchedPaths.
RECURSIVE resolveFrom(_, _, _, _, _)
resolveFrom(r, fs, name, k, searched) ==
    IF k > Len(searchPaths(r))
    THEN [path |-> NoPath, source |-> "", err |-> TRUE,
          msg |-> <<"template '", name, "' not found in:">> \o searched]
    ELSE LET sp == searchPaths(r)[k]
             fullPath == TemplatePath(sp.dir, name)
         IN  IF sp.dir = ""
             THEN resolveFrom(r, fs, name, k + 1, searched)
             ELSE IF Stat(fs, fullPath)
             THEN [path |-> fullPath, source |-> sp.source, err |-> FALSE,
                   msg |-> <<>>]
             ELSE resolveFrom(r, fs, name, k + 1, Append(searched, fullPath))

\* TemplateResolver.Resolve
Resolve(r, fs, name) == resolveFrom(r, fs, name, 1, <<>>)

\* TemplateResolver.ResolveWithBuiltin; builtin is the set of names for
\* which builtinExists is true.
ResolveWithBuiltin(r, fs, name, builtin) ==
    LET found == Resolve(r, fs, name)
    IN  IF ~found.err THEN found
        ELSE IF name \in builtin
        THEN [path |-> NoPath, source |-> "builtin", err |-> FALSE, msg |-> <<>>]
        ELSE found

\* TemplateResolver.List, the inner loop over the files of one directory.
RECURSIVE listFiles(_, _, _, _)
listFiles(files, source, k, templates) ==
    IF k > Len(files) THEN templates
    ELSE LET name == BaseName(files[k])
             seen == \E x \in 1..Len(templates) : templates[x].Name = name
         IN  listFiles(files, source, k + 1,
                 IF seen THEN templates
                 ELSE Append(templates,
                          [Name |-> name, Path |-> files[k], Source |-> source]))

\* TemplateResolver.List, the loop over the directories from k on.
RECURSIVE listFrom(_, _, _, _)
listFrom(r, fs, k, templates) ==
    IF k > Len(searchPaths(r)) THEN templates
    ELSE LET d == searchPaths(r)[k]
         IN  IF d.dir = "" THEN listFrom(r, fs, k + 1, templates)
             ELSE listFrom(r, fs, k + 1,
                      listFiles(Glob(fs, d.dir), d.source, 1, templates))

\* TemplateResolver.List
List(r, fs) == listFrom(r, fs, 1, <<>>)

\* The directories a field of the resolver can name ("" is not configured).
TemplateDirs == { "", "/x", "/y" }

Resolvers ==
    [ExplicitDir : TemplateDirs, LocalDir : TemplateDirs,
     ConfigDir : TemplateDirs, UserDir : TemplateDirs]

\* The files that can exist: the templates in either directory, and a file
\* that is no template.
PossibleFiles ==
    { TemplatePath(d, n) : d \in {"/x", "/y"}, n \in Elements(TemplateNames) }
        \cup { <<"/x", "/", "epic", ".txt">> }

BuiltinSets == { {}, {"epic"} }

\* The names asked for.
AskedNames == Elements(TemplateNames)

VARIABLES
    items,          \* the decoded batch file ([]BatchItem)
    batchDryRun,    \* the --dry-run flag
    pc,             \* position in runBatchCreate
    i,              \* index of the prepare / validate loop
    preparedItems,  \* []PreparedItem
    err,            \* the error runBatchCreate returns, NoError while none
    epics,          \* result of separateEpics
    others,
    result,         \* *BatchResult
    idToKey,        \* map[string]string
    calls,          \* the BulkCreateIssues and LinkToEpic calls made so far
    site,           \* the issues the Jira site has created (key and origin)
    exitCode,       \* process exit code, -1 while running
    validations,    \* number of ValidateIssueFields calls made so far
    adf,            \* the value given to the renderer
    adfDepth,       \* the list depth at which the value is processed
    rendered,       \* what the renderer returned, NotRendered before
    env,            \* the environment variables of the process
    checker,        \* the *Checker, NoChecker before NewChecker
    command,        \* the command the checker was asked about last
    verdict,        \* what IsAllowed (allowed) or Check (err, msg) returned
    cliCmd,         \* the command cobra found for the command line
    cliPc,          \* position in the execution of the command
    cliTrace,       \* what has been done for the command, in order
    cliErr,         \* the error Execute returns, NoCliError while none
    keyringPassword,  \* the environment variable JIRA_KEYRING_PASSWORD
    credFile,       \* the file credentials.enc
    secretOps,      \* the calls made on the Store so far, with outcome
    resolver,       \* the *TemplateResolver
    templateFS,     \* the files that exist
    builtins,       \* the names of the builtin templates
    resolved        \* what the last call on the resolver returned

vars == <<items, batchDryRun, pc, i, preparedItems, err, epics, others,
          result, idToKey, calls, site, exitCode, validations,
          adf, adfDepth, rendered, env, checker, command, verdict,
          cliCmd, cliPc, cliTrace, cliErr,
          keyringPassword, credFile, secretOps,
          resolver, templateFS, builtins, resolved>>

\* The renderer is not part of a batch run.
adfVars == <<adf, adfDepth, rendered>>

\* The allowlist checker.
allowVars == <<env, checker, command, verdict>>

\* What is not part of a batch run or of the renderer.
\* The execution of one command line.
cliVars == <<cliCmd, cliPc, cliTrace, cliErr>>

\* The secret store.
secretVars == <<keyringPassword, credFile, secretOps>>

\* The template resolver.
resolverVars == <<resolver, templateFS, builtins, resolved>>

toolVars == <<allowVars, cliVars, secretVars, resolverVars>>

NotResolved ==
    [fn |-> "none", name |-> "", path |-> NoPath, source |-> "",
     err |-> FALSE, msg |-> <<>>, templates |-> <<>>]

ResolverIdle ==
    /\ resolver = [ExplicitDir |-> "", LocalDir |-> "", ConfigDir |-> "",
                   UserDir |-> ""]
    /\ templateFS = {}
    /\ builtins = {}
    /\ resolved = NotResolved

SecretsIdle ==
    /\ keyringPassword = EmptyStr
    /\ credFile = NoFile
    /\ secretOps = <<>>

NoCliError == [err |-> FALSE, msg |-> EmptyStr]

CliIdle ==
    /\ cliCmd = Command(RootName, "help")
    /\ cliPc = "none"
    /\ cliTrace = <<>>
    /\ cliErr = NoCliError

NoEnv == [n \in {EnvReadOnly, EnvCommandAllowlist} |-> EmptyStr]

NoChecker == [allowedCommands |-> {}, readOnly |-> FALSE, enabled |-> FALSE]

NoVerdict == [fn |-> "none", allowed |-> FALSE, err |-> FALSE, msg |-> EmptyStr]

AllowlistIdle ==
    /\ env = NoEnv
    /\ checker = NoChecker
    /\ command = EmptyStr
    /\ verdict = NoVerdict

ToolsIdle == AllowlistIdle /\ CliIdle /\ SecretsIdle /\ ResolverIdle

NotRendered == [fn |-> "none", panic |-> FALSE, s |-> <<>>]

NoError == [kind |-> "none", index |-> -1]

NoResult == [Success |-> 0, Failed |-> 0, Created |-> <<>>, Errors |-> <<>>]

Init ==
    /\ items \in BatchFiles
    /\ batchDryRun \in BOOLEAN
    /\ pc = "load"
    /\ i = 0
    /\ preparedItems = <<>>
    /\ err = NoError
    /\ epics = <<>>
    /\ others = <<>>
    /\ result = NoResult
    /\ idToKey = EmptyMap
    /\ calls = <<>>
    /\ site = <<>>
    /\ exitCode = -1
    /\ validations = 0
    /\ adf = Nil
    /\ adfDepth = 0
    /\ rendered = NotRendered
    /\ ToolsIdle

\* runBatchCreate, lines 117-127: an empty batch file is an error.
LoadBatch ==
    /\ pc = "load"
    /\ IF Len(items) = 0
       THEN /\ err' = [kind |-> "empty", index |-> -1]
            /\ exitCode' = 1
            /\ pc' = "failed"
       ELSE /\ pc' = "prepare"
            /\ UNCHANGED <<err, exitCode>>
    /\ UNCHANGED <<items, batchDryRun, i, preparedItems, epics, others,
                   result, idToKey, calls, site, validations>>
    /\ UNCHANGED <<adfVars, toolVars>>

\* prepareItem that drops the error of RenderTemplate.
prepareItemIgnoreRenderError(item, idx) ==
    LET l == LoadTemplate(item.Template)
        r == RenderTemplate(l.tmpl, item.Data)
    IN  [ok |-> l.ok,
         item |-> [Index |-> idx, ID |-> item.ID, Type |-> l.tmpl.Type,
                   Fields |-> r.fields, Template |-> item.Template,
                   RawData |-> item.Data]]

\* prepareBatchItems, the body of the loop for item i (0-based): the
\* prepared item, or the failure of LoadTemplate or RenderTemplate.
prepareItem(item, idx) ==
    LET l == LoadTemplate(item.Template)
        r == RenderTemplate(l.tmpl, item.Data)
        fields == IF Get(r.fields, "issuetype") = Nil
                  THEN Put(r.fields, "issuetype",
                           Map([k \in {"name"} |-> Str(l.tmpl.Type)]))
                  ELSE r.fields
    IN  [ok |-> l.ok /\ r.ok,
         item |-> [Index |-> idx, ID |-> item.ID, Type |-> l.tmpl.Type,
                   Fields |-> fields, Template |-> item.Template,
                   RawData |-> item.Data]]

\* prepareBatchItems, one iteration of the loop: item i is loaded and
\* rendered; a failure returns nil and the error "item <i>: ...".
PrepareItem ==
    /\ pc = "prepare"
    /\ i < Len(items)
    /\ LET p == prepareItem(items[i + 1], i)
       IN  IF ~p.ok
           THEN /\ preparedItems' = <<>>
                /\ err' = [kind |-> "prepare", index |-> i]
                /\ exitCode' = 1
                /\ pc' = "failed"
                /\ i' = i
           ELSE /\ preparedItems' = Append(preparedItems, p.item)
                /\ i' = i + 1
                /\ UNCHANGED <<err, exitCode, pc>>
    /\ UNCHANGED <<items, batchDryRun, epics, others, result, idToKey, calls,
                   site, validations>>
    /\ UNCHANGED <<adfVars, toolVars>>

\* prepareBatchItems returns the prepared items.
PrepareDone ==
    /\ pc = "prepare"
    /\ i = Len(items)
    /\ pc' = "validate"
    /\ i' = 0
    /\ UNCHANGED <<items, batchDryRun, preparedItems, err, epics, others,
                   result, idToKey, calls, site, exitCode, validations>>
    /\ UNCHANGED <<adfVars, toolVars>>

\* runBatchCreate, lines 141-145, one iteration: prepared item i is
\* validated; a failure returns "validation failed for item <i>".
ValidateItem ==
    /\ pc = "validate"
    /\ i < Len(preparedItems)
    /\ \E metaOk \in BOOLEAN :
          IF ValidateIssueFields(preparedItems[i + 1].Fields, metaOk)
          THEN /\ i' = i + 1
               /\ UNCHANGED <<err, exitCode, pc>>
          ELSE /\ err' = [kind |-> "validate", index |-> i]
               /\ exitCode' = 1
               /\ pc' = "failed"
               /\ i' = i
    /\ validations' = validations + 1
    /\ UNCHANGED <<items, batchDryRun, preparedItems, epics, others, result,
                   idToKey, calls, site>>
    /\ UNCHANGED <<adfVars, toolVars>>

\* runBatchCreate without the --dry-run block of lines 147-160.
ValidateDoneIgnoresDryRun ==
    /\ pc = "validate"
    /\ i = Len(preparedItems)
    /\ pc' = "separate"
    /\ UNCHANGED <<items, batchDryRun, i, preparedItems, err, epics, others,
                   result, idToKey, calls, site, exitCode, validations>>
    /\ UNCHANGED <<adfVars, toolVars>>

\* runBatchCreate, lines 147-160: with --dry-run the command prints the
\* prepared items and returns.
ValidateDone ==
    /\ pc = "validate"
    /\ i = Len(preparedItems)
    /\ IF batchDryRun
       THEN pc' = "done" /\ exitCode' = 0
       ELSE pc' = "separate" /\ UNCHANGED exitCode
    /\ UNCHANGED <<items, batchDryRun, i, preparedItems, err, epics, others,
                   result, idToKey, calls, site, validations>>
    /\ UNCHANGED <<adfVars, toolVars>>

\* runBatchCreate, lines 162-172: partition, empty result, empty map.
Separate ==
    /\ pc = "separate"
    /\ epics' = separateEpics(preparedItems).epics
    /\ others' = separateEpics(preparedItems).others
    /\ result' = NoResult
    /\ idToKey' = EmptyMap
    /\ pc' = "epics"
    /\ UNCHANGED <<items, batchDryRun, i, preparedItems, err, calls, site,
                   exitCode, validations>>
    /\ UNCHANGED <<adfVars, toolVars>>

FieldsArray(group) == [j \in 1..Len(group) |-> group[j].Fields]

\* The entry of the call log for one call of BulkCreateIssues: the list
\* submitted, the requests posted for it with the answer of the site to
\* each, and the response returned to createBatch.
BulkCall(name, group, r, outs) ==
    [op |-> "bulk", group |-> name, issues |-> FieldsArray(group), ok |-> ~r.err,
     child |-> EmptyStr, epic |-> EmptyStr,
     requests |-> r.sent, answers |-> SubSeq(outs, 1, Len(r.sent)),
     response |-> r.resp]

\* The issues a request created on the site, with the input index of the
\* item each was created from.
Made(group, r) ==
    [j \in 1..Len(r.made) |->
        [Key |-> r.made[j].Key, Index |-> group[r.made[j].Elem + 1].Index]]

\* createBatch on group: BulkCreateIssues is called with the fields of the
\* group and the answer is folded into result and idToKey.
SubmitGroup(name, group) ==
    \E outs \in OutcomeSeqs(Len(group)) :
        LET r == BulkCreateIssues(FieldsArray(group), outs, Len(site) + 1)
            c == createBatch(group, r, result, idToKey)
        IN  /\ result' = c.result
            /\ idToKey' = c.idToKey
            /\ calls' = Append(calls, BulkCall(name, group, r, outs))
            /\ site' = site \o Made(group, r)

\* runBatchCreate, lines 190-193
CreateEpics ==
    /\ pc = "epics"
    /\ IF Len(epics) > 0
       THEN SubmitGroup("epics", epics)
       ELSE UNCHANGED <<result, idToKey, calls, site>>
    /\ pc' = "resolve"
    /\ UNCHANGED <<items, batchDryRun, i, preparedItems, err, epics, others,
                   exitCode, validations>>
    /\ UNCHANGED <<adfVars, toolVars>>

\* runBatchCreate, line 196.  The Fields maps of others are the maps of the
\* same items in preparedItems (separateEpics copies the structs, not the
\* maps), so the update shows in both.
ResolveReferences ==
    /\ pc = "resolve"
    /\ others' = resolveReferences(others, idToKey)
    /\ preparedItems' =
          [k \in 1..Len(preparedItems) |->
              IF \E j \in 1..Len(others) : others[j].Index = k - 1
              THEN [preparedItems[k] EXCEPT
                       !.Fields = resolveFieldReferences(@, idToKey)]
              ELSE preparedItems[k]]
    /\ pc' = "others"
    /\ UNCHANGED <<items, batchDryRun, i, err, epics, result, idToKey, calls,
                   site, exitCode, validations>>
    /\ UNCHANGED <<adfVars, toolVars>>

\* CreateOthers that skips the group once the epic phase recorded an error.
CreateOthersUnlessEpicErrors ==
    /\ pc = "others"
    /\ IF Len(others) > 0 /\ Len(result.Errors) = 0
       THEN SubmitGroup("others", others)
       ELSE UNCHANGED <<result, idToKey, calls, site>>
    /\ pc' = "link"
    /\ UNCHANGED <<items, batchDryRun, i, preparedItems, err, epics, others,
                   exitCode, validations>>
    /\ UNCHANGED <<adfVars, toolVars>>

\* runBatchCreate, lines 198-201
CreateOthers ==
    /\ pc = "others"
    /\ IF Len(others) > 0
       THEN SubmitGroup("others", others)
       ELSE UNCHANGED <<result, idToKey, calls, site>>
    /\ pc' = "link"
    /\ UNCHANGED <<items, batchDryRun, i, preparedItems, err, epics, others,
                   exitCode, validations>>
    /\ UNCHANGED <<adfVars, toolVars>>

\* linkStoriesToEpics, lines 424-431: the key of the first created issue
\* whose type is the item's type, "" when there is none.
RECURSIVE findStoryKey(_, _, _)
findStoryKey(created, type, j) ==
    IF j > Len(created) THEN EmptyStr
    ELSE IF created[j].Type = type THEN created[j].Key
    ELSE findStoryKey(created, type, j + 1)

\* linkStoriesToEpics: the (storyKey, epicKey) pairs LinkToEpic is called
\* with, in order.
linkPairs(group, created) ==
    LET pair(item) == [child |-> findStoryKey(created, item.Type, 1),
                       epic |-> findEpicKey(item.Fields)]
        linked(p) == ~(p.epic = EmptyStr \/ p.child = EmptyStr)
    IN  SelectSeq([j \in 1..Len(group) |-> pair(group[j])], linked)

\* What the LinkToEpic calls of one run return: all succeed, all fail, or
\* only the first fails.
LinkOutcomes(n) ==
    { [j \in 1..n |-> TRUE], [j \in 1..n |-> FALSE], [j \in 1..n |-> j # 1] }

\* LinkStories that records a failed LinkToEpic call as a batch error.
LinkStoriesRecordsFailures ==
    /\ pc = "link"
    /\ LET pairs == linkPairs(others, result.Created)
       IN  \E oks \in LinkOutcomes(Len(pairs)) :
               /\ calls' = calls \o
                     [j \in 1..Len(pairs) |->
                         [op |-> "link", group |-> "others", issues |-> <<>>,
                        requests |-> <<>>, answers |-> <<>>,
                        response |-> NoResponse,
                          ok |-> oks[j], child |-> pairs[j].child,
                          epic |-> pairs[j].epic]]
               /\ result' = [result EXCEPT !.Errors = @ \o
                     [j \in 1..Cardinality({x \in 1..Len(pairs) : ~oks[x]}) |->
                         [Index |-> 0, Error |-> <<"link failed">>,
                          Data |-> EmptyMap]]]
    /\ pc' = "totals"
    /\ UNCHANGED <<items, batchDryRun, i, preparedItems, err, epics, others,
                   idToKey, site, exitCode, validations>>
    /\ UNCHANGED <<adfVars, toolVars>>

\* runBatchCreate, line 204: linkStoriesToEpics; every LinkToEpic call
\* succeeds or fails, and the error is dropped.
LinkStories ==
    /\ pc = "link"
    /\ LET pairs == linkPairs(others, result.Created)
       IN  \E oks \in LinkOutcomes(Len(pairs)) :
               calls' = calls \o
                   [j \in 1..Len(pairs) |->
                       [op |-> "link", group |-> "others", issues |-> <<>>,
                        requests |-> <<>>, answers |-> <<>>,
                        response |-> NoResponse,
                        ok |-> oks[j], child |-> pairs[j].child,
                        epic |-> pairs[j].epic]]
    /\ pc' = "totals"
    /\ UNCHANGED <<items, batchDryRun, i, preparedItems, err, epics, others,
                   result, idToKey, site, exitCode, validations>>
    /\ UNCHANGED <<adfVars, toolVars>>

\* runBatchCreate, lines 206-226: totals, output, exit code 2 on failures.
Finish ==
    /\ pc = "totals"
    /\ result' = [result EXCEPT !.Success = Len(result.Created),
                                !.Failed = Len(result.Errors)]
    /\ exitCode' = IF Len(result.Errors) > 0 THEN 2 ELSE 0
    /\ pc' = "done"
    /\ UNCHANGED <<items, batchDryRun, i, preparedItems, err, epics, others,
                   idToKey, calls, site, validations>>
    /\ UNCHANGED <<adfVars, toolVars>>

Next ==
    \/ LoadBatch
    \/ PrepareItem
    \/ PrepareDone
    \/ ValidateItem
    \/ ValidateDone
    \/ Separate
    \/ CreateEpics
    \/ ResolveReferences
    \/ CreateOthers
    \/ LinkStories
    \/ Finish

Spec == Init /\ [][Next]_vars

\* The command run on a batch file of ChunkFiles.
InitChunked ==
    /\ items \in ChunkFiles
    /\ batchDryRun \in BOOLEAN
    /\ pc = "load"
    /\ i = 0
    /\ preparedItems = <<>>
    /\ err = NoError
    /\ epics = <<>>
    /\ others = <<>>
    /\ result = NoResult
    /\ idToKey = EmptyMap
    /\ calls = <<>>
    /\ site = <<>>
    /\ exitCode = -1
    /\ validations = 0
    /\ adf = Nil
    /\ adfDepth = 0
    /\ rendered = NotRendered
    /\ ToolsIdle

SpecChunked == InitChunked /\ [][Next]_vars

\* ------------------------------------------------------ the renderer alone
\* The renderer is given one value; no batch is run.
InitADF ==
    /\ adf \in ADFInputs
    /\ adfDepth \in 0..MaxDepth
    /\ rendered = NotRendered
    /\ items = <<>>
    /\ batchDryRun = FALSE
    /\ pc = "load"
    /\ i = 0
    /\ preparedItems = <<>>
    /\ err = NoError
    /\ epics = <<>>
    /\ others = <<>>
    /\ result = NoResult
    /\ idToKey = EmptyMap
    /\ calls = <<>>
    /\ site = <<>>
    /\ exitCode = -1
    /\ validations = 0
    /\ ToolsIdle

batchVars == <<items, batchDryRun, pc, i, preparedItems, err, epics, others,
               result, idToKey, calls, site, exitCode, validations>>

\* A call of ADFToPlainText, which starts the walk at depth 0.
Convert ==
    /\ rendered = NotRendered
    /\ adfDepth = 0
    /\ LET r == ADFToPlainText(adf)
       IN  rendered' = [fn |-> "ADFToPlainText", panic |-> r.panic, s |-> r.s]
    /\ UNCHANGED <<adf, adfDepth>>
    /\ UNCHANGED <<batchVars, toolVars>>

\* A call of processADFNode as the walk makes it: on a node, at the list
\* depth the node is found at.
ProcessNode ==
    /\ rendered = NotRendered
    /\ adf.t = "map"
    /\ LET r == processADFNode(adf.v, adfDepth, 0)
       IN  rendered' = [fn |-> "processADFNode", panic |-> r.panic, s |-> r.s]
    /\ UNCHANGED <<adf, adfDepth>>
    /\ UNCHANGED <<batchVars, toolVars>>

NextADF == Convert \/ ProcessNode

SpecADF == InitADF /\ [][NextADF]_vars

\* ------------------------------------------------ the allowlist checker alone
BatchIdle ==
    /\ items = <<>>
    /\ batchDryRun = FALSE
    /\ pc = "load"
    /\ i = 0
    /\ preparedItems = <<>>
    /\ err = NoError
    /\ epics = <<>>
    /\ others = <<>>
    /\ result = NoResult
    /\ idToKey = EmptyMap
    /\ calls = <<>>
    /\ site = <<>>
    /\ exitCode = -1
    /\ validations = 0

ADFIdle ==
    /\ adf = Nil
    /\ adfDepth = 0
    /\ rendered = NotRendered

\* A process with some environment; no checker exists yet.
InitAllowlist ==
    /\ env \in Environments
    /\ checker = NoChecker
    /\ command = EmptyStr
    /\ verdict = NoVerdict
    /\ BatchIdle
    /\ ADFIdle
    /\ CliIdle
    /\ SecretsIdle
    /\ ResolverIdle

\* checker := allowlist.NewChecker()
NewCheckerCall ==
    /\ verdict.fn = "none"
    /\ checker' = NewChecker(env)
    /\ verdict' = [NoVerdict EXCEPT !.fn = "NewChecker"]
    /\ UNCHANGED <<env, command>>
    /\ UNCHANGED <<batchVars, adfVars, cliVars, secretVars, resolverVars>>

\* checker.IsAllowed(c)
IsAllowedCall ==
    /\ verdict.fn # "none"
    /\ \E c \in AskedCommands :
          /\ command' = c
          /\ verdict' = [fn |-> "IsAllowed", allowed |-> IsAllowed(checker, c),
                         err |-> FALSE, msg |-> EmptyStr]
    /\ UNCHANGED <<env, checker>>
    /\ UNCHANGED <<batchVars, adfVars, cliVars, secretVars, resolverVars>>

\* checker.Check(c)
CheckCall ==
    /\ verdict.fn # "none"
    /\ \E c \in AskedCommands :
          LET r == Check(checker, c)
          IN  /\ command' = c
              /\ verdict' = [fn |-> "Check", allowed |-> FALSE,
                             err |-> r.err, msg |-> r.msg]
    /\ UNCHANGED <<env, checker>>
    /\ UNCHANGED <<batchVars, adfVars, cliVars, secretVars, resolverVars>>

NextAllowlist == NewCheckerCall \/ IsAllowedCall \/ CheckCall

SpecAllowlist == InitAllowlist /\ [][NextAllowlist]_vars

\* ------------------------------------------------ one command line executed
\* cobra has parsed the command line and found the command to run.
InitCLI ==
    /\ env \in Environments
    /\ cliCmd \in RunnableCommands
    /\ cliPc = "prerun"
    /\ cliTrace = <<>>
    /\ cliErr = NoCliError
    /\ checker = NoChecker
    /\ command = EmptyStr
    /\ verdict = NoVerdict
    /\ BatchIdle
    /\ ADFIdle
    /\ SecretsIdle
    /\ ResolverIdle

\* templateCmd.PersistentPreRunE: returns nil.
TemplatePreRun ==
    /\ cliPc = "prerun"
    /\ PreRunOwner(cliCmd) = "template"
    /\ cliTrace' = Append(cliTrace, "template hook")
    /\ cliPc' = "run"
    /\ UNCHANGED <<cliCmd, cliErr, allowVars>>
    /\ UNCHANGED <<batchVars, adfVars, secretVars, resolverVars>>

\* rootCmd.PersistentPreRunE, lines 33-46: the checker is built and, unless
\* the command is help or version, asked about the command path.
RootPreRunCheck ==
    /\ cliPc = "prerun"
    /\ PreRunOwner(cliCmd) = RootName
    /\ checker' = NewChecker(env)
    /\ IF cliCmd.name \notin { "help", "version" }
       THEN LET r == Check(checker', CmdPath(cliCmd))
            IN  /\ command' = CmdPath(cliCmd)
                /\ verdict' = [fn |-> "Check", allowed |-> FALSE,
                               err |-> r.err, msg |-> r.msg]
                /\ cliTrace' = Append(cliTrace, "check")
                /\ cliErr' = IF r.err THEN r ELSE cliErr
                /\ cliPc' = IF r.err THEN "exit"
                            ELSE IF cliCmd.name \in { "configure", "template" }
                            THEN "run" ELSE "config"
       ELSE /\ cliPc' = "run"
            /\ UNCHANGED <<command, verdict, cliTrace, cliErr>>
    /\ UNCHANGED <<cliCmd, env>>
    /\ UNCHANGED <<batchVars, adfVars, secretVars, resolverVars>>

\* rootCmd.PersistentPreRunE, lines 53-65: the configuration is loaded.
RootPreRunConfig ==
    /\ cliPc = "config"
    /\ cliTrace' = Append(cliTrace, "config")
    /\ \E ok \in BOOLEAN :
          IF ok THEN cliPc' = "client" /\ UNCHANGED cliErr
          ELSE /\ cliPc' = "exit"
               /\ cliErr' = [err |-> TRUE, msg |-> <<"failed to load config">>]
    /\ UNCHANGED <<cliCmd, allowVars>>
    /\ UNCHANGED <<batchVars, adfVars, secretVars, resolverVars>>

\* rootCmd.PersistentPreRunE, lines 67-70: jiraClient = client.New(cfg).
RootPreRunClient ==
    /\ cliPc = "client"
    /\ cliTrace' = Append(cliTrace, "client")
    /\ cliPc' = "run"
    /\ UNCHANGED <<cliCmd, cliErr, allowVars>>
    /\ UNCHANGED <<batchVars, adfVars, secretVars, resolverVars>>

\* cobra calls the Run or RunE function of the command.
RunCommand ==
    /\ cliPc = "run"
    /\ cliTrace' = Append(cliTrace, "body")
    /\ cliPc' = IF UsesAPI(cliCmd) THEN "request" ELSE "exit"
    /\ UNCHANGED <<cliCmd, cliErr, allowVars>>
    /\ UNCHANGED <<batchVars, adfVars, secretVars, resolverVars>>

\* The function of the command sends a request to the Jira site.
ApiRequest ==
    /\ cliPc = "request"
    /\ cliTrace' = Append(cliTrace, "api")
    /\ cliPc' = "exit"
    /\ UNCHANGED <<cliCmd, cliErr, allowVars>>
    /\ UNCHANGED <<batchVars, adfVars, secretVars, resolverVars>>

NextCLI ==
    \/ TemplatePreRun
    \/ RootPreRunCheck
    \/ RootPreRunConfig
    \/ RootPreRunClient
    \/ RunCommand
    \/ ApiRequest

SpecCLI == InitCLI /\ [][NextCLI]_vars

\* ------------------------------------------------ the secret store alone
\* A Store with the file backend; no credentials file exists yet.
InitSecrets ==
    /\ keyringPassword \in Passwords
    /\ credFile = NoFile
    /\ secretOps = <<>>
    /\ BatchIdle
    /\ ADFIdle
    /\ AllowlistIdle
    /\ CliIdle
    /\ ResolverIdle

\* JIRA_KEYRING_PASSWORD is set or unset between two calls.
SetPassword ==
    /\ \E p \in Passwords \ {keyringPassword} : keyringPassword' = p
    /\ UNCHANGED <<credFile, secretOps>>
    /\ UNCHANGED <<batchVars, adfVars, allowVars, cliVars, resolverVars>>

\* store.Store(account, creds)
StoreCall ==
    /\ Len(secretOps) < MaxOps
    /\ \E account \in Elements(Accounts), token \in Tokens :
          LET r == storeFile(credFile, keyringPassword, account, Credentials(token))
          IN  /\ credFile' = r.file
              /\ secretOps' = Append(secretOps,
                     [op |-> "Store", account |-> account,
                      creds |-> Credentials(token),
                      password |-> keyringPassword, err |-> r.err])
    /\ UNCHANGED keyringPassword
    /\ UNCHANGED <<batchVars, adfVars, allowVars, cliVars, resolverVars>>

\* store.Delete(account)
DeleteCall ==
    /\ Len(secretOps) < MaxOps
    /\ \E account \in Elements(Accounts) :
          LET r == deleteFile(credFile, keyringPassword, account)
          IN  /\ credFile' = r.file
              /\ secretOps' = Append(secretOps,
                     [op |-> "Delete", account |-> account,
                      creds |-> NoCredentials,
                      password |-> keyringPassword, err |-> r.err])
    /\ UNCHANGED keyringPassword
    /\ UNCHANGED <<batchVars, adfVars, allowVars, cliVars, resolverVars>>

\* store.Retrieve(account)
RetrieveCall ==
    /\ Len(secretOps) < MaxOps
    /\ \E account \in Elements(Accounts) :
          LET r == retrieveFile(credFile, keyringPassword, account)
          IN  secretOps' = Append(secretOps,
                  [op |-> "Retrieve", account |-> account, creds |-> r.creds,
                   password |-> keyringPassword, err |-> r.err])
    /\ UNCHANGED <<keyringPassword, credFile>>
    /\ UNCHANGED <<batchVars, adfVars, allowVars, cliVars, resolverVars>>

NextSecrets == SetPassword \/ StoreCall \/ DeleteCall \/ RetrieveCall

SpecSecrets == InitSecrets /\ [][NextSecrets]_vars

\* ------------------------------------------------ the template resolver alone
\* A resolver over some directories and some files.
InitResolver ==
    /\ resolver \in Resolvers
    /\ templateFS \in SUBSET PossibleFiles
    /\ builtins \in BuiltinSets
    /\ resolved = NotResolved
    /\ BatchIdle
    /\ ADFIdle
    /\ AllowlistIdle
    /\ CliIdle
    /\ SecretsIdle

\* resolver.Resolve(name)
ResolveCall ==
    /\ \E name \in AskedNames :
          LET r == Resolve(resolver, templateFS, name)
          IN  resolved' = [fn |-> "Resolve", name |-> name, path |-> r.path,
                           source |-> r.source, err |-> r.err, msg |-> r.msg,
                           templates |-> <<>>]
    /\ UNCHANGED <<resolver, templateFS, builtins>>
    /\ UNCHANGED <<batchVars, adfVars, allowVars, cliVars, secretVars>>

\* resolver.ResolveWithBuiltin(name, builtinExists)
ResolveWithBuiltinCall ==
    /\ \E name \in AskedNames :
          LET r == ResolveWithBuiltin(resolver, templateFS, name, builtins)
          IN  resolved' = [fn |-> "ResolveWithBuiltin", name |-> name,
                           path |-> r.path, source |-> r.source, err |-> r.err,
                           msg |-> r.msg, templates |-> <<>>]
    /\ UNCHANGED <<resolver, templateFS, builtins>>
    /\ UNCHANGED <<batchVars, adfVars, allowVars, cliVars, secretVars>>

\* resolver.List()
ListCall ==
    /\ resolved' = [NotResolved EXCEPT !.fn = "List",
                                       !.templates = List(resolver, templateFS)]
    /\ UNCHANGED <<resolver, templateFS, builtins>>
    /\ UNCHANGED <<batchVars, adfVars, allowVars, cliVars, secretVars>>

NextResolver == ResolveCall \/ ResolveWithBuiltinCall \/ ListCall

SpecResolver == InitResolver /\ [][NextResolver]_vars

\* ------------------------------------------------------------- properties
\* Input item k (1-based) is an epic: the type its template declares is
\* "epic" in some casing.
IsEpicItem(k) ==
    /\ items[k].Template \in DOMAIN TemplateFiles
    /\ ToLower(TemplateFiles[items[k].Template].Type) = <<"e", "p", "i", "c">>

\* The 0-based input indices below n whose item is an epic (e = TRUE) or is
\* not (e = FALSE), in input order.
RECURSIVE GroupIndices(_, _)
GroupIndices(n, e) ==
    IF n = 0 THEN <<>>
    ELSE GroupIndices(n - 1, e) \o (IF IsEpicItem(n) = e THEN <<n - 1>> ELSE <<>>)

\* The input index of the item a submitted fields map was rendered from
\* (the summaries of a batch file are pairwise distinct).
SubmittedIndex(fields) ==
    IF \E k \in 0..Len(items) : Get(fields, "summary") = Str(SummaryOf(k))
    THEN CHOOSE k \in 0..Len(items) : Get(fields, "summary") = Str(SummaryOf(k))
    ELSE -1

IsBulk(k) == calls[k].op = "bulk"

\* C1: the bulk-create call for the epics comes before the one for the
\* non-epics, each group is submitted once, and each call carries exactly
\* the items of its group in input order.
C1_EpicsSubmittedFirst ==
    \A k \in 1..Len(calls) :
        IsBulk(k) =>
            /\ [j \in 1..Len(calls[k].issues) |-> SubmittedIndex(calls[k].issues[j])]
                   = GroupIndices(Len(items), calls[k].group = "epics")
            /\ calls[k].group = "epics" => k = 1
            /\ calls[k].group = "others" =>
                   /\ \A j \in k + 1..Len(calls) : ~IsBulk(j)
                   /\ GroupIndices(Len(items), TRUE) # <<>> =>
                          k = 2 /\ IsBulk(1) /\ calls[1].group = "epics"

\* Both groups were submitted for a file whose epic comes after a non-epic.
C1_Witness ==
    /\ Len(items) >= 2
    /\ ~IsEpicItem(1)
    /\ IsEpicItem(2)
    /\ Len(calls) >= 2
    /\ IsBulk(1) /\ calls[1].group = "epics"
    /\ IsBulk(2) /\ calls[2].group = "others"

\* The project and issuetype fields have the shape ValidateIssueFields asks for.
WellFormedFields(fields) ==
    /\ "project" \in DOMAIN fields
    /\ \/ fields["project"].t = "str"
       \/ /\ fields["project"].t = "map"
          /\ "key" \in DOMAIN fields["project"].v
          /\ fields["project"].v["key"].t = "str"
    /\ "issuetype" \in DOMAIN fields
    /\ fields["issuetype"].t = "map"
    /\ "name" \in DOMAIN fields["issuetype"].v
    /\ fields["issuetype"].v["name"].t = "str"

\* C2: a validation failure ends the run with the index of the item whose
\* validation failed and without any create or link call; a create or link
\* call is made only after every item has been validated.
C2_ValidationBeforeCreate ==
    /\ err.kind = "validate" =>
           /\ pc = "failed"
           /\ err.index = i
           /\ validations = i + 1
           /\ i < Len(items)
           /\ calls = <<>>
           /\ site = <<>>
    /\ (calls # <<>> \/ site # <<>>) =>
           /\ err = NoError
           /\ validations = Len(items)
           /\ \A k \in 1..Len(preparedItems) :
                  WellFormedFields(preparedItems[k].Fields)

\* Validation failed at an item that is not the first.
C2_Witness == err.kind = "validate" /\ err.index > 0 /\ pc = "failed"

\* The templates that load and render.
UsableTemplates == {"epic", "story", "task"}

\* C3: a template failure ends the run with the index of the first item
\* whose template fails, returns no prepared items, and neither validation
\* nor a create or link call happens.
C3_PrepareFailureAborts ==
    /\ err.kind = "prepare" =>
           /\ pc = "failed"
           /\ preparedItems = <<>>
           /\ validations = 0
           /\ calls = <<>>
           /\ site = <<>>
           /\ err.index < Len(items)
           /\ items[err.index + 1].Template \notin UsableTemplates
           /\ \A k \in 1..err.index : items[k].Template \in UsableTemplates
    /\ (validations > 0 \/ calls # <<>> \/ site # <<>>) =>
           \A k \in 1..Len(items) : items[k].Template \in UsableTemplates

\* A template failed after earlier items had been rendered.
C3_Witness == err.kind = "prepare" /\ err.index > 0 /\ pc = "failed"

\* The keys of the issues the site created from input item idx (0-based).
SiteKeys(idx) == { site[j].Key : j \in { x \in 1..Len(site) : site[x].Index = idx } }

\* The keys of the issues the site created from epics with symbolic id id.
EpicKeysOf(id) ==
    UNION { SiteKeys(e - 1) : e \in { x \in 1..Len(items) : IsEpicItem(x) /\ items[x].ID = id } }

\* The fields of input item k (1-based) as rendered, before any reference
\* is resolved.
RenderedFields(k) == prepareItem(items[k], k - 1).item.Fields

\* C4: a field of a non-epic item that is exactly "@<id>", <id> being the
\* symbolic id of an epic the site created in this run, is submitted in the
\* non-epic bulk-create call as the key of such an epic.
C4_ReferenceCarriesEpicKey ==
    \A c \in 1..Len(calls) :
        (IsBulk(c) /\ calls[c].group = "others") =>
            \A j \in 1..Len(calls[c].issues) :
                LET sub == calls[c].issues[j]
                    orig == RenderedFields(SubmittedIndex(sub) + 1)
                IN  \A f \in DOMAIN orig :
                        (/\ orig[f].t = "str"
                         /\ HasPrefix(orig[f].v, "@")
                         /\ Tail(orig[f].v) # EmptyStr
                         /\ EpicKeysOf(Tail(orig[f].v)) # {})
                        => /\ sub[f].t = "str"
                           /\ sub[f].v \in EpicKeysOf(Tail(orig[f].v))

\* Every string of old that is "@<id>" with <id> mapped by m is, at the
\* same place of new, the mapped key; maps and sequences keep their shape.
RECURSIVE FullyResolved(_, _, _)
FullyResolved(old, new, m) ==
    CASE old.t = "str" ->
           (HasPrefix(old.v, "@") /\ Tail(old.v) \in DOMAIN m)
               => new = Str(m[Tail(old.v)])
      [] old.t = "map" ->
           /\ new.t = "map"
           /\ DOMAIN new.v = DOMAIN old.v
           /\ \A k \in DOMAIN old.v : FullyResolved(old.v[k], new.v[k], m)
      [] old.t = "seq" ->
           /\ new.t = "seq"
           /\ Len(new.v) = Len(old.v)
           /\ \A k \in 1..Len(old.v) : FullyResolved(old.v[k], new.v[k], m)
      [] OTHER -> TRUE

\* C5: reference resolution replaces every string "@<id>" with a mapped
\* <id>, at any depth of maps and sequences of a non-epic item's fields.
C5_ResolutionReachesEveryDepth ==
    [][pc = "resolve" =>
          /\ Len(others') = Len(others)
          /\ \A j \in 1..Len(others) :
                 FullyResolved(Map(others[j].Fields), Map(others'[j].Fields), idToKey)]_vars

\* new is old except that strings "@<id>" with <id> mapped by m may have
\* become the mapped key.
RECURSIVE OnlyReferencesChanged(_, _, _)
OnlyReferencesChanged(old, new, m) ==
    CASE old.t = "str" ->
           \/ new = old
           \/ /\ HasPrefix(old.v, "@")
              /\ Tail(old.v) \in DOMAIN m
              /\ new = Str(m[Tail(old.v)])
      [] old.t = "map" ->
           /\ new.t = "map"
           /\ DOMAIN new.v = DOMAIN old.v
           /\ \A k \in DOMAIN old.v : OnlyReferencesChanged(old.v[k], new.v[k], m)
      [] old.t = "seq" ->
           /\ new.t = "seq"
           /\ Len(new.v) = Len(old.v)
           /\ \A k \in 1..Len(old.v) : OnlyReferencesChanged(old.v[k], new.v[k], m)
      [] OTHER -> new = old

\* C6: reference resolution changes nothing but resolved references:
\* unmapped references, text around a reference and non-strings stay, the
\* field names stay, epic items are untouched and no error is raised.
C6_ResolutionChangesNothingElse ==
    [][pc = "resolve" =>
          /\ pc' = "others"
          /\ err' = err
          /\ epics' = epics
          /\ idToKey' = idToKey
          /\ Len(others') = Len(others)
          /\ \A j \in 1..Len(others) :
                 /\ OnlyReferencesChanged(Map(others[j].Fields),
                                          Map(others'[j].Fields), idToKey)
                 /\ [others'[j] EXCEPT !.Fields = others[j].Fields] = others[j]
          /\ Len(preparedItems') = Len(preparedItems)
          /\ \A k \in 1..Len(preparedItems) :
                 IsEpicItem(k) => preparedItems'[k] = preparedItems[k]]_vars

\* References were resolved with a non-empty map and an unmapped reference
\* and a text containing a reference went through unchanged.
C6_Witness ==
    /\ pc = "others"
    /\ IdA \in DOMAIN idToKey
    /\ Len(epics) > 0
    /\ \E j \in 1..Len(others) : Get(others[j].Fields, "epicKey") = Str(RefB)
    /\ \E j \in 1..Len(others) : Get(others[j].Fields, "epicKey") = Str(TextWithRefA)

\* The step is a createBatch call on a group: the submitted group.
IsSubmitStep == pc \in {"epics", "others"} /\ Len(calls') = Len(calls) + 1

SubmittedGroup == IF pc = "epics" THEN epics ELSE others

\* The entries a step appended to a sequence.
Appended(old, new) == SubSeq(new, Len(old) + 1, Len(new))

\* C7: after a bulk-create call that was answered, every element the site
\* did not create has exactly one new error entry, with the item's input
\* index and raw input data, and as many entries are added to created as
\* the site created issues.
C7_PartialFailureKeepsInputIndex ==
    [][(IsSubmitStep /\ calls'[Len(calls')].ok) =>
          LET group == SubmittedGroup
              made == Appended(site, site')
              newErrors == Appended(result.Errors, result'.Errors)
              failed == { group[j].Index : j \in 1..Len(group) }
                            \ { made[j].Index : j \in 1..Len(made) }
          IN  /\ Len(newErrors) = Cardinality(failed)
              /\ { newErrors[j].Index : j \in 1..Len(newErrors) } = failed
              /\ \A j \in 1..Len(newErrors) :
                     newErrors[j].Data = items[newErrors[j].Index + 1].Data
              /\ Len(result'.Created) - Len(result.Created) = Len(made)]_vars

\* The non-epic call was answered with a partial success, epics came
\* first in the file, and an error entry carries an input index that is
\* not the position inside the group.
C7_Witness ==
    /\ pc = "link"
    /\ Len(calls) >= 1
    /\ calls[Len(calls)].group = "others"
    /\ calls[Len(calls)].ok
    /\ Len(others) >= 2
    /\ IsEpicItem(1)
    /\ \E j \in 1..Len(others) : SiteKeys(others[j].Index) # {}
    /\ \E e \in 1..Len(result.Errors) : \E j \in 1..Len(others) :
           /\ others[j].Index = result.Errors[e].Index
           /\ j - 1 # result.Errors[e].Index

\* The type the template of input item idx (0-based) declares.
TypeOfItem(idx) == TemplateFiles[items[idx + 1].Template].Type

\* C8: every created entry belongs to the item its key was created from
\* (that item's type and summary), and the map sends exactly the symbolic
\* ids of created items to the key of an item created with that id.
C8_KeysAttributedToTheirItems ==
    /\ \A c \in 1..Len(result.Created) :
           \E j \in 1..Len(site) :
               /\ site[j].Key = result.Created[c].Key
               /\ result.Created[c].Type = TypeOfItem(site[j].Index)
               /\ result.Created[c].Summary = SummaryOf(site[j].Index)
    /\ \A j \in 1..Len(site) :
           LET id == items[site[j].Index + 1].ID
           IN  id # EmptyStr =>
                   /\ id \in DOMAIN idToKey
                   /\ \E x \in 1..Len(site) :
                          /\ site[x].Key = idToKey[id]
                          /\ items[site[x].Index + 1].ID = id
    /\ \A id \in DOMAIN idToKey :
           \E j \in 1..Len(site) :
               /\ site[j].Key = idToKey[id]
               /\ items[site[j].Index + 1].ID = id

\* C9: when the bulk-create call of a group fails as a whole, every item
\* of the group gets one error entry with the same message, its input
\* index and its raw data, and nothing is added to created or to the map.
C9_TotalFailureMarksWholeGroup ==
    [][(IsSubmitStep /\ ~calls'[Len(calls')].ok) =>
          LET group == SubmittedGroup
              newErrors == Appended(result.Errors, result'.Errors)
          IN  /\ Len(newErrors) = Len(group)
              /\ \A j \in 1..Len(group) :
                     /\ newErrors[j].Index = group[j].Index
                     /\ newErrors[j].Data = items[group[j].Index + 1].Data
                     /\ newErrors[j].Error = newErrors[1].Error
                     /\ newErrors[j].Error \in RequestErrors
              /\ result'.Created = result.Created
              /\ idToKey' = idToKey]_vars

\* A call for a group of at least two items failed as a whole.
C9_Witness ==
    \E c \in 1..Len(calls) :
        /\ IsBulk(c)
        /\ ~calls[c].ok
        /\ Len(calls[c].issues) >= 2
        /\ Len(result.Errors) >= 2

\* The number of error entries with input index idx.
ErrorCount(idx) ==
    Cardinality({ e \in 1..Len(result.Errors) : result.Errors[e].Index = idx })

\* C10: once the run is past the creation phases, the non-epic group, when
\* there is one, has been submitted (after the epics call when there are
\* epics), whatever happened to the epics, and every epic the site did not
\* create still has its error entry.
C10_EpicFailureDoesNotBlockOthers ==
    (pc \in {"link", "totals"} \/ (pc = "done" /\ ~batchDryRun)) =>
        /\ GroupIndices(Len(items), FALSE) # <<>> =>
               \E c \in 1..Len(calls) :
                   /\ IsBulk(c)
                   /\ calls[c].group = "others"
                   /\ GroupIndices(Len(items), TRUE) # <<>> =>
                          \E b \in 1..c - 1 : IsBulk(b) /\ calls[b].group = "epics"
        /\ \A k \in 1..Len(items) :
               (IsEpicItem(k) /\ SiteKeys(k - 1) = {}) => ErrorCount(k - 1) = 1

\* The run ended after an epic failed and the non-epic group was submitted.
C10_Witness ==
    /\ pc = "done"
    /\ \E k \in 1..Len(items) :
           IsEpicItem(k) /\ SiteKeys(k - 1) = {} /\ ErrorCount(k - 1) = 1
    /\ \E c \in 1..Len(calls) : IsBulk(c) /\ calls[c].group = "others"

\* C11: the linking step leaves created and errors as they are whatever the
\* LinkToEpic calls return, the run goes on to the totals without an
\* error, and success is then the number of created entries.
C11_LinkingNeverChangesResult ==
    [][/\ pc = "link" =>
             /\ result' = result
             /\ err' = err
             /\ exitCode' = exitCode
             /\ pc' = "totals"
       /\ pc = "totals" =>
             /\ result'.Created = result.Created
             /\ result'.Errors = result.Errors
             /\ result'.Success = Len(result.Created)
             /\ result'.Success = Len(site)
             /\ err' = NoError
             /\ pc' = "done"]_vars

\* The run ended with issues created and every LinkToEpic call failed.
C11_Witness ==
    /\ pc = "done"
    /\ result.Success > 0
    /\ \E c \in 1..Len(calls) : calls[c].op = "link"
    /\ \A c \in 1..Len(calls) : calls[c].op = "link" => ~calls[c].ok

\* The LinkToEpic calls of the log, as (child, epic) pairs in call order.
LinkCallsMade ==
    LET idx == SelectIdx(Len(calls), [c \in 1..Len(calls) |-> calls[c].op = "link"])
    IN  [j \in 1..Len(idx) |-> [child |-> calls[idx[j]].child, epic |-> calls[idx[j]].epic]]

\* The epic reference of a fields map: the string held under the first
\* name of the alias list that the fields hold as a string.
EpicReference(fields) ==
    IF \E n \in 1..Len(epicFields) :
           epicFields[n] \in DOMAIN fields /\ fields[epicFields[n]].t = "str"
    THEN fields[epicFields[
             CHOOSE n \in 1..Len(epicFields) :
                 /\ epicFields[n] \in DOMAIN fields /\ fields[epicFields[n]].t = "str"
                 /\ \A m \in 1..n - 1 :
                        ~(epicFields[m] \in DOMAIN fields /\ fields[epicFields[m]].t = "str")]].v
    ELSE EmptyStr

\* The links the run owes: for every non-epic item, in input order, that
\* the site created and whose fields hold an epic reference, the key of
\* the issue created from that item and the reference.
RECURSIVE LinksOwed(_)
LinksOwed(n) ==
    IF n = 0 THEN <<>>
    ELSE LinksOwed(n - 1) \o
         (IF /\ ~IsEpicItem(n)
             /\ SiteKeys(n - 1) # {}
             /\ EpicReference(preparedItems[n].Fields) # EmptyStr
          THEN <<[child |-> CHOOSE k \in SiteKeys(n - 1) : TRUE,
                  epic |-> EpicReference(preparedItems[n].Fields)]>>
          ELSE <<>>)

\* C12: once the linking step is over, LinkToEpic has been called exactly
\* for the created non-epic items that hold an epic reference, each with
\* the key created from that item and with its epic reference.
C12_LinksUseTheItemsOwnKey ==
    (pc \in {"totals", "done"} /\ ~batchDryRun) =>
        LinkCallsMade = LinksOwed(Len(items))

\* C14: an entry of the ID->Key map is never removed and never changed.
C14_IdToKeyIsAddOnly ==
    [][\A id \in DOMAIN idToKey :
           id \in DOMAIN idToKey' /\ idToKey'[id] = idToKey[id]]_vars

\* C13: at the end of the run every issue the site created is reported in
\* created and the item it was created from has no error entry.
C13_CreatedIssuesAreReported ==
    pc = "done" =>
        \A j \in 1..Len(site) :
            /\ \E c \in 1..Len(result.Created) : result.Created[c].Key = site[j].Key
            /\ \A e \in 1..Len(result.Errors) : result.Errors[e].Index # site[j].Index

\* ------------------------------------------------------ renderer properties
IsCall(fn) == rendered.fn = fn

NodeType == IF adf.t = "map" THEN AsString(Get(adf.v, "type")) ELSE <<>>

IsNodeValue(val) == val.t = "map"

\* The children of the node under test that are nodes, in order.
NodeChildren ==
    LET content == IF adf.t = "map" THEN Get(adf.v, "content") ELSE Nil
    IN  IF content.t = "seq" THEN SelectSeq(content.v, IsNodeValue) ELSE <<>>

\* C15: ADFToPlainText never panics, whatever the node tree: malformed or
\* missing attributes and children only leave output out.
C15_RendererNeverPanics == IsCall("ADFToPlainText") => ~rendered.panic

\* C16: ADFToPlainText returns "" for nil, returns a string input unchanged
\* (also one that ends with newlines), and returns "" for every other input
\* that is not a node map.
C16_PlainInputsPassThrough ==
    (IsCall("ADFToPlainText") /\ adf.t # "map") =>
        /\ ~rendered.panic
        /\ rendered.s = (IF adf.t = "str" THEN adf.v ELSE <<>>)

C16_Witness ==
    /\ IsCall("ADFToPlainText")
    /\ adf = Str(<<"x", NL, NL>>)
    /\ rendered.s = <<"x", NL, NL>>

\* C17: for a node tree the result is the node output with its trailing
\* newlines and whitespace removed and nothing else changed: it never ends
\* with a newline or another whitespace character, and it is the node
\* output up to that trailing whitespace.
C17_TrailingWhitespaceTrimmed ==
    (IsCall("ADFToPlainText") /\ adf.t = "map" /\ ~rendered.panic) =>
        LET raw == processADFNode(adf.v, 0, 0).s
            n == Len(rendered.s)
        IN  /\ n > 0 => rendered.s[n] \notin WhiteSpace
            /\ n <= Len(raw)
            /\ rendered.s = SubSeq(raw, 1, n)
            /\ \A k \in (n + 1)..Len(raw) : raw[k] \in WhiteSpace

RECURSIVE NumberedItems(_, _, _)
\* The items from the k-th on, each with the indentation of the depth, the
\* marker "k. " and the item's own text.
NumberedItems(nodes, k, depth) ==
    IF k > Len(nodes) THEN <<>>
    ELSE Repeat(<<" ", " ">>, depth) \o Itoa(k) \o <<".", " ">>
         \o listItemBody(nodes[k].v, depth).s
         \o NumberedItems(nodes, k + 1, depth)

\* C18: an orderedList renders its k-th item with the marker "k. ",
\* starting at 1, at every depth.
C18_OrderedMarkersCountItems ==
    (IsCall("processADFNode") /\ NodeType = <<"orderedList">> /\ ~rendered.panic) =>
        rendered.s = NumberedItems(NodeChildren, 1, adfDepth)

KnownKinds ==
    { <<k>> : k \in {"doc", "paragraph", "heading", "text", "hardBreak",
                     "codeBlock", "blockquote", "bulletList", "orderedList",
                     "listItem", "mediaSingle", "mediaGroup", "rule", "table",
                     "inlineCard", "mention", "emoji"} }

RECURSIVE OutputOfNodes(_, _)
\* What the nodes write one after the other at the given depth; a panic of
\* one of them is the panic of the whole.
OutputOfNodes(nodes, depth) ==
    IF nodes = <<>> THEN Wrote(<<>>)
    ELSE LET first == processADFNode(Head(nodes).v, depth, 0)
             rest == OutputOfNodes(Tail(nodes), depth)
         IN  IF first.panic \/ rest.panic THEN Panic
             ELSE Wrote(first.s \o rest.s)

\* C19: a node of unknown kind writes exactly what its child nodes write,
\* in order and at the same depth, and fails only where a child fails.
C19_UnknownKindIsTransparent ==
    (IsCall("processADFNode") /\ NodeType \notin KnownKinds) =>
        LET expected == OutputOfNodes(NodeChildren, adfDepth)
        IN  /\ rendered.panic = expected.panic
            /\ rendered.s = expected.s

C19_Witness ==
    /\ IsCall("processADFNode")
    /\ adf = Node("futureType", <<Text(Hello)>>)
    /\ adfDepth = MaxDepth
    /\ rendered.s = Hello

\* The children of a media container that are media nodes.
MediaOf(nodes) ==
    LET isMedia(n) == AsString(Get(n.v, "type")) = <<"media">>
    IN  SelectSeq(nodes, isMedia)

RECURSIVE Placeholders(_)
Placeholders(nodes) ==
    IF nodes = <<>> THEN <<>>
    ELSE mediaPlaceholder(Head(nodes)) \o Placeholders(Tail(nodes))

\* C20: a media container writes one placeholder line per media child, and
\* exactly one "[Media]" line when it has no media child (no content, empty
\* content, or only other children).
C20_MediaContainerPlaceholders ==
    (IsCall("processADFNode") /\ NodeType \in {<<"mediaSingle">>, <<"mediaGroup">>}) =>
        /\ ~rendered.panic
        /\ rendered.s = (IF MediaOf(NodeChildren) = <<>> THEN <<"[Media]", NL>>
                         ELSE Placeholders(MediaOf(NodeChildren)))

\* An item's plain content as one or more lines: trailing newlines cut and
\* every inner newline followed by the indentation of depth + 1.
IndentedContent(buf, depth) ==
    ReplaceAll(TrimRight(buf, {NL}), NL, <<NL>> \o Repeat(<<" ", " ">>, depth + 1))

RECURSIVE IndentedItemFrom(_, _, _, _)
\* What the children of a list item from the j-th on add after the marker:
\* st.res is written, st.buf is plain content not yet written.  A nested
\* list is written at depth + 1 where it occurs, after the plain content
\* before it.
IndentedItemFrom(itemContent, j, depth, st) ==
    IF j > Len(itemContent)
    THEN IF st.buf # <<>> THEN st.res \o IndentedContent(st.buf, depth) \o <<NL>>
         ELSE st.res
    ELSE LET child == itemContent[j]
             childType == AsString(Get(child.v, "type"))
             r == processADFNode(child.v, depth + 1, 0)
             flushed == IF st.buf # <<>>
                        THEN st.res \o IndentedContent(st.buf, depth) \o <<NL>>
                        ELSE st.res
         IN  IF child.t # "map"
             THEN IndentedItemFrom(itemContent, j + 1, depth, st)
             ELSE IF childType \in {<<"bulletList">>, <<"orderedList">>}
             THEN IndentedItemFrom(itemContent, j + 1, depth,
                      [res |-> flushed \o r.s, buf |-> <<>>])
             ELSE IndentedItemFrom(itemContent, j + 1, depth,
                      [res |-> st.res, buf |-> st.buf \o r.s])

RECURSIVE IndentedItems(_, _, _, _)
\* The children of a list from the k-th on: each node child starts a line
\* with 2 * depth spaces and its marker.
IndentedItems(content, k, depth, ordered) ==
    IF k > Len(content) THEN <<>>
    ELSE (IF content[k].t = "map"
          THEN LET itemContent == Get(content[k].v, "content")
               IN  Repeat(<<" ">>, 2 * depth) \o listMarker(k - 1, ordered)
                   \o (IF itemContent.t = "seq"
                       THEN IndentedItemFrom(itemContent.v, 1, depth,
                                [res |-> <<>>, buf |-> <<>>])
                       ELSE <<>>)
          ELSE <<>>)
         \o IndentedItems(content, k + 1, depth, ordered)

\* C21: in a list at depth d every item starts with 2*d spaces and its
\* marker, a nested list is written at depth d+1 where it occurs, after the
\* plain content before it, and every inner newline of an item's plain
\* content is followed by the indentation of depth d+1, for the content
\* before a nested list as for the content at the end of the item.
C21_ListItemsIndented ==
    (/\ IsCall("processADFNode")
     /\ NodeType \in {<<"bulletList">>, <<"orderedList">>}
     /\ ~rendered.panic) =>
        LET content == Get(adf.v, "content")
        IN  rendered.s = (IF content.t = "seq"
                          THEN IndentedItems(content.v, 1, adfDepth,
                                             NodeType = <<"orderedList">>)
                          ELSE <<>>)

\* ---------------------------------------------------------------- C26
\* Some item of the batch file does not render (its template is missing or
\* a field of it does not execute).
SomeItemNotRendered ==
    \E k \in 1..Len(items) : ~prepareItem(items[k], k - 1).ok

\* The dry run made no request: no bulk create, no link, nothing created.
DryRunIssuesNoCall ==
    batchDryRun => calls = <<>> /\ site = <<>> /\ pc \notin {"separate", "epics", "resolve", "others", "link"}

\* C26 as stated: with --dry-run no bulk-create call and no link call is
\* issued, and the command succeeds exactly when every item rendered and
\* validated: it ends with exit code 0 only then, and it fails only when
\* some item did not render or did not validate.
C26_DryRunSucceedsIffAllItemsPass ==
    batchDryRun =>
        /\ DryRunIssuesNoCall
        /\ pc = "done" =>
              /\ exitCode = 0
              /\ ~SomeItemNotRendered
              /\ validations = Len(items)
              /\ err = NoError
        /\ pc = "failed" =>
              /\ exitCode = 1
              /\ SomeItemNotRendered \/ err.kind = "validate"

\* C26 amended: with --dry-run no bulk-create call and no link call is
\* issued, and the command succeeds exactly when the batch file holds at
\* least one item and every item rendered and validated; a batch file
\* without items fails.
C26_DryRunOfNonEmptyFile ==
    batchDryRun =>
        /\ DryRunIssuesNoCall
        /\ pc = "done" =>
              /\ exitCode = 0
              /\ Len(items) > 0
              /\ ~SomeItemNotRendered
              /\ validations = Len(items)
              /\ err = NoError
        /\ pc = "failed" =>
              /\ exitCode = 1
              /\ \/ Len(items) = 0 /\ err.kind = "empty"
                 \/ SomeItemNotRendered /\ err.kind = "prepare"
                 \/ ~SomeItemNotRendered /\ err.kind = "validate"

\* A dry run of a file of two items ended with success.
C26_Witness ==
    /\ batchDryRun
    /\ pc = "done"
    /\ Len(items) >= 2
    /\ validations = Len(items)
    /\ calls = <<>>

\* ---------------------------------------------------------------- C28
\* C28: the ID->Key map is written only while the epics are created: once
\* the references of the non-epic items are being resolved no step adds or
\* changes an entry, and creating the non-epic group leaves the map as it is.
C28_MapWrittenOnlyByEpicPhase ==
    [][idToKey' # idToKey => pc \notin {"resolve", "others", "link"}]_vars

\* ---------------------------------------------------------------- C30
\* Number of entries of created that carry the summary of input item k.
CreatedEntriesOf(k) ==
    Cardinality({ c \in 1..Len(result.Created) :
                      result.Created[c].Summary = SummaryOf(k) })

\* Number of entries of errors that carry the index of input item k.
ErrorEntriesOf(k) ==
    Cardinality({ e \in 1..Len(result.Errors) : result.Errors[e].Index = k })

\* C30: after a run that passed validation and is not a dry run, every
\* input item is in created or in errors and in one of them only, once;
\* success is the length of created, failed the length of errors, and
\* their sum is the number of input items.
C30_EveryItemAccountedOnce ==
    (pc = "done" /\ ~batchDryRun) =>
        /\ result.Success = Len(result.Created)
        /\ result.Failed = Len(result.Errors)
        /\ result.Success + result.Failed = Len(items)
        /\ \A k \in 0..(Len(items) - 1) :
               CreatedEntriesOf(k) + ErrorEntriesOf(k) = 1

\* ---------------------------------------------------------------- C27
\* The request bodies of one call, one after the other.
RECURSIVE Flatten(_)
Flatten(requests) ==
    IF requests = <<>> THEN <<>> ELSE Head(requests) \o Flatten(Tail(requests))

\* The group a call of BulkCreateIssues was made for.
GroupOf(call) == IF call.group = "epics" THEN epics ELSE others

\* Whether the site created element p (0-based position in the list
\* submitted) of a call: the answer to the request that carried it.
SiteCreated(call, p) ==
    call.answers[(p \div maxBatchSize) + 1].mask[(p % maxBatchSize) + 1]

\* The positions of the list submitted that the site created (want) or
\* rejected (~want), in ascending order.
Positions(call, want) ==
    LET chosen(p) == SiteCreated(call, p) = want
    IN  SelectSeq([k \in 1..Len(call.issues) |-> k - 1], chosen)

\* C27: BulkCreateIssues sends a list of more than 50 issues as consecutive
\* chunks of at most 50 in submission order and a list of 50 or fewer as one
\* request; the response it returns lists the created issues in submission
\* order (chunk after chunk) and every failed element by its position in the
\* whole list submitted.
C27_ChunksKeepSubmissionOrder ==
    \A x \in 1..Len(calls) :
        calls[x].op = "bulk" =>
            LET call == calls[x]
                all == Flatten(call.requests)
                good == Positions(call, TRUE)
                bad == Positions(call, FALSE)
            IN  /\ \A q \in 1..Len(call.requests) :
                       Len(call.requests[q]) \in 1..maxBatchSize
                /\ Len(all) <= Len(call.issues)
                /\ all = SubSeq(call.issues, 1, Len(all))
                /\ Len(call.issues) <= maxBatchSize => call.requests = <<call.issues>>
                /\ call.ok =>
                       /\ all = call.issues
                       /\ Len(call.response.Issues) = Len(good)
                       /\ \A j \in 1..Len(good) :
                              \E k \in 1..Len(site) :
                                  /\ site[k].Key = call.response.Issues[j].Key
                                  /\ site[k].Index = GroupOf(call)[good[j] + 1].Index
                       /\ [j \in 1..Len(call.response.Errors) |->
                              call.response.Errors[j].FailedElementNumber] = bad

\* A list of more than 50 issues was sent in two requests, the site
\* rejected the first element of the second request, and a call for a list
\* of 50 or fewer was answered as well.
C27_Witness ==
    \E x, y \in 1..Len(calls) :
        /\ calls[x].op = "bulk" /\ calls[x].ok
        /\ Len(calls[x].issues) > maxBatchSize
        /\ Len(calls[x].requests) = 2
        /\ \E j \in 1..Len(calls[x].response.Errors) :
               calls[x].response.Errors[j].FailedElementNumber = maxBatchSize
        /\ calls[y].op = "bulk" /\ calls[y].ok
        /\ Len(calls[y].issues) <= maxBatchSize

\* ---------------------------------------------------------------- C22
\* JIRA_READONLY is set to a non-empty value and the checker was built.
ReadOnlyMode == env[EnvReadOnly] # EmptyStr /\ verdict.fn # "none"

\* The command as the checker compares it.
Normal(c) == ToLower(TrimSpace(c))

\* The checker turned the command down: IsAllowed returned false, or Check
\* returned the error of read-only mode.
Rejected ==
    \/ verdict.fn = "IsAllowed" /\ ~verdict.allowed
    \/ /\ verdict.fn = "Check"
       /\ verdict.err
       /\ verdict.msg = <<"command '">> \o command \o
              <<"' is blocked: JIRA_READONLY mode enabled (only read operations allowed)">>

Accepted ==
    \/ verdict.fn = "IsAllowed" /\ verdict.allowed
    \/ verdict.fn = "Check" /\ ~verdict.err

AlwaysAllowed == { <<"help">>, <<"version">>, <<"--help">>, <<"-h">> }

\* In read-only mode the allowed set is ReadOnlyCommands, whatever the
\* allowlist says, and the two command lists have nothing in common.
ReadOnlyWins ==
    /\ Elements(ReadOnlyCommands) \cap Elements(WriteCommands) = {}
    /\ ReadOnlyMode =>
          /\ checker.enabled /\ checker.readOnly
          /\ GetAllowedCommands(checker) = Elements(ReadOnlyCommands)

\* C22 as stated: with JIRA_READONLY set to a non-empty value read-only
\* mode takes precedence over JIRA_COMMAND_ALLOWLIST: the allowed set is
\* exactly ReadOnlyCommands, IsAllowed and Check reject every command of
\* WriteCommands and every command that is in neither list, and the
\* two lists are disjoint.
C22_ReadOnlyRejectsAllButReadOnly ==
    /\ ReadOnlyWins
    /\ (ReadOnlyMode /\ verdict.fn \in {"IsAllowed", "Check"}) =>
          (Normal(command) \notin Elements(ReadOnlyCommands) => Rejected)

\* C22 amended: as above, except that the spellings --help and -h of the
\* help request, which are in neither list, are accepted like help and
\* version; every other command outside ReadOnlyCommands is rejected.
C22_ReadOnlyRejectsAllButReadOnlyAndHelp ==
    /\ ReadOnlyWins
    /\ (ReadOnlyMode /\ verdict.fn \in {"IsAllowed", "Check"}) =>
          /\ Normal(command) \notin Elements(ReadOnlyCommands) \cup AlwaysAllowed
                => Rejected
          /\ Normal(command) \in Elements(ReadOnlyCommands) \cup AlwaysAllowed
                => Accepted

\* In read-only mode with an allowlist that names create, Check turned
\* down create.
C22_Witness ==
    /\ ReadOnlyMode
    /\ <<"create">> \in NewCheckerAllowlistFirst(env).allowedCommands
    /\ verdict.fn = "Check"
    /\ command = <<"create">>
    /\ Rejected

\* ---------------------------------------------------------------- C23
\* The entries of a comma-separated list: what stands between two commas
\* (or an end of the list), trimmed and lower-cased, the empty ones left out.
EntriesOf(list) ==
    LET comma(k) == k = 0 \/ k = Len(list) + 1 \/ list[k] = ","
    IN  { Normal(SubSeq(list, a + 1, b - 1)) :
              <<a, b>> \in { ab \in (0..Len(list)) \X (1..(Len(list) + 1)) :
                                /\ ab[1] < ab[2]
                                /\ comma(ab[1]) /\ comma(ab[2])
                                /\ \A k \in (ab[1] + 1)..(ab[2] - 1) : ~comma(k) } }
        \ {EmptyStr}

\* A restriction is configured by either variable.
Restricted == env[EnvReadOnly] # EmptyStr \/ env[EnvCommandAllowlist] # EmptyStr

\* The entries in force: those of read-only mode, or those of the allowlist.
EntriesInForce ==
    IF env[EnvReadOnly] # EmptyStr THEN Elements(ReadOnlyCommands)
    ELSE EntriesOf(env[EnvCommandAllowlist])

ShouldBeAllowed ==
    ~Restricted \/ Normal(command) \in AlwaysAllowed \cup EntriesInForce

\* C23: without a restriction IsAllowed is true for every command; with
\* one it is true exactly when the command, trimmed and lower-cased, is
\* help, version, --help or -h or equals an entry (trimmed, lower-cased,
\* not empty), so that a prefix or an extension of an entry and the empty
\* command are turned down; Check returns an error exactly when IsAllowed
\* is false.
C23_AllowedIffExactEntry ==
    /\ verdict.fn = "IsAllowed" => (verdict.allowed <=> ShouldBeAllowed)
    /\ verdict.fn = "Check" =>
          /\ verdict.err <=> ~ShouldBeAllowed
          /\ verdict.err <=> ~IsAllowed(checker, command)

\* With the allowlist "comments", the extension "comments list" was turned
\* down by IsAllowed.
C23_Witness ==
    /\ env[EnvReadOnly] = EmptyStr
    /\ env[EnvCommandAllowlist] = <<"comments">>
    /\ verdict.fn = "IsAllowed"
    /\ command = Sub("comments", "list")
    /\ ~verdict.allowed

\* ---------------------------------------------------------------- C29
Done(what) == \E k \in 1..Len(cliTrace) : cliTrace[k] = what

\* The command line names a command other than help and version whose
\* path the environment does not allow.
NotAllowedCommand ==
    /\ cliPc # "none"
    /\ cliCmd.name \notin { "help", "version" }
    /\ ~IsAllowed(NewChecker(env), CmdPath(cliCmd))

\* C29: the allowlist check comes before the configuration is loaded and
\* before the Jira client is built; for a command other than help and
\* version whose path is not allowed the pre-run hook returns the error of
\* Check: the function of the command never runs and no request is sent
\* to the Jira site.
C29_BlockedCommandNeverRuns ==
    /\ \A k \in 1..Len(cliTrace) :
           cliTrace[k] \in { "config", "client" } =>
               \E j \in 1..(k - 1) : cliTrace[j] = "check"
    /\ NotAllowedCommand =>
           /\ ~Done("config") /\ ~Done("client")
           /\ ~Done("body") /\ ~Done("api")
           /\ cliPc = "exit" =>
                  cliErr = Check(NewChecker(env), CmdPath(cliCmd))

\* ---------------------------------------------------------------- C24
\* The Store and Delete calls on account a among the first n calls that
\* were made while a password was set.
CallsOn(a, n) ==
    { k \in 1..n :
          /\ secretOps[k].account = a
          /\ secretOps[k].op \in { "Store", "Delete" }
          /\ secretOps[k].password # EmptyStr }

LastCallOn(a, n) == CHOOSE k \in CallsOn(a, n) : \A j \in CallsOn(a, n) : j <= k

\* After the first n calls the last of them is a Store.
HasCredentials(a, n) ==
    CallsOn(a, n) # {} /\ secretOps[LastCallOn(a, n)].op = "Store"

\* What Retrieve has to return for account a after the first n calls:
\* the credentials of the most recent Store(a) that no Delete(a) followed,
\* or the error that there are none.
Owed(a, n) ==
    IF HasCredentials(a, n)
    THEN [err |-> EmptyStr, creds |-> secretOps[LastCallOn(a, n)].creds]
    ELSE [err |-> <<"no credentials found for account ">> \o a,
          creds |-> NoCredentials]

\* C24: with the file backend, after any sequence of Store and Delete calls
\* on several accounts made with the password set, Retrieve(a) returns the
\* credentials of the most recent Store(a) not followed by Delete(a) and
\* fails otherwise, so that a Store or Delete on one account leaves what
\* Retrieve returns for the other accounts as it was; without a password
\* Store and Retrieve fail with ErrPasswordRequired and change nothing.
C24_RetrieveReturnsLastStore ==
    /\ \A k \in 1..Len(secretOps) :
           LET call == secretOps[k]
           IN  IF call.password = EmptyStr
               THEN call.err = ErrPasswordRequired
               ELSE IF call.op = "Retrieve"
               THEN [err |-> call.err, creds |-> call.creds] = Owed(call.account, k - 1)
               ELSE call.err = EmptyStr
    /\ \A a \in Elements(Accounts) :
           LET r == retrieveFile(credFile, Password, a)
           IN  [err |-> r.err, creds |-> r.creds] = Owed(a, Len(secretOps))

\* Account a was stored twice with different tokens, and Retrieve returned
\* the second token.
C24_Witness ==
    /\ Len(secretOps) >= 3
    /\ secretOps[1].op = "Store" /\ secretOps[1].account = <<"a">>
    /\ secretOps[1].password # EmptyStr
    /\ secretOps[2].op = "Store" /\ secretOps[2].account = <<"a">>
    /\ secretOps[2].password # EmptyStr
    /\ secretOps[2].creds # secretOps[1].creds
    /\ secretOps[3].op = "Retrieve" /\ secretOps[3].account = <<"a">>
    /\ secretOps[3].err = EmptyStr
    /\ secretOps[3].creds = secretOps[2].creds

\* ---------------------------------------------------------------- C25
Labels == <<"explicit", "local", "config", "user">>

\* The directory configured for a label.
DirOf(label) ==
    CASE label = "explicit" -> resolver.ExplicitDir
      [] label = "local" -> resolver.LocalDir
      [] label = "config" -> resolver.ConfigDir
      [] OTHER -> resolver.UserDir

\* The directory of label k is configured and contains name.yaml.
Has(k, name) ==
    DirOf(Labels[k]) # "" /\ <<DirOf(Labels[k]), "/", name, ".yaml">> \in templateFS

\* The first label in priority order whose directory has the template.
Winner(name) == CHOOSE k \in 1..4 : Has(k, name) /\ \A j \in 1..(k - 1) : ~Has(j, name)

Anywhere(name) == \E k \in 1..4 : Has(k, name)

\* C25: Resolve returns the template of the first directory, in the order
\* explicit, local, config, user, that is configured and contains
\* name.yaml, with the label of that directory; ResolveWithBuiltin returns
\* the builtin only when no directory has the template; an error is
\* returned when nothing has it; List reports each template name once, with
\* the label of the first directory that contains it.
C25_FirstDirectoryWins ==
    /\ resolved.fn \in {"Resolve", "ResolveWithBuiltin"} =>
          IF Anywhere(resolved.name)
          THEN /\ ~resolved.err
               /\ resolved.source = Labels[Winner(resolved.name)]
               /\ resolved.path = <<DirOf(Labels[Winner(resolved.name)]), "/",
                                     resolved.name, ".yaml">>
          ELSE IF resolved.fn = "ResolveWithBuiltin" /\ resolved.name \in builtins
          THEN ~resolved.err /\ resolved.source = "builtin"
          ELSE resolved.err
    /\ resolved.fn = "List" =>
          /\ \A x, y \in 1..Len(resolved.templates) :
                 resolved.templates[x].Name = resolved.templates[y].Name => x = y
          /\ \A x \in 1..Len(resolved.templates) :
                 LET t == resolved.templates[x]
                 IN  /\ Anywhere(t.Name)
                     /\ t.Source = Labels[Winner(t.Name)]
          /\ \A name \in Elements(TemplateNames) :
                 Anywhere(name) =>
                     \E x \in 1..Len(resolved.templates) :
                         resolved.templates[x].Name = name

\* Resolve found in the local directory a template that the user
\* directory, another one, has as well.
C25_Witness ==
    /\ resolved.fn = "Resolve"
    /\ resolver.ExplicitDir = ""
    /\ resolver.LocalDir # "" /\ resolver.UserDir # ""
    /\ resolver.LocalDir # resolver.UserDir
    /\ Has(2, resolved.name) /\ Has(4, resolved.name)
    /\ resolved.source = "local"

====
